---- MODULE Spec2Model ----
(***************************************************************************)
(* A model of the LIBRA exporter pass (watssec/libra, oracle/Libra): the   *)
(* pass entry point LibraPass::run, the prepare phase that fills the       *)
(* process-wide registry of function contexts, the labelling context, and  *)
(* the module / function / block / instruction / value / constant          *)
(* serializers, over a bounded universe of verifier-clean IR modules.      *)
(***************************************************************************)
EXTENDS Integers, Sequences, FiniteSets, TLC

(***************************************************************************)
(* Bounds.                                                                 *)
(***************************************************************************)
\* largest number of functions of an input module
MaxFuncs == 2
\* number of times the host pipeline invokes the pass in one process
MaxRuns == 2
\* size of the entity pool of each namespace in the context unit harness
NumEntities == 3

(***************************************************************************)
(* The IR universe.  Entities are identified by their position: a function *)
(* by its index p in the module, a block by <<p, b>>, an instruction by    *)
(* <<p, b, i>>, an argument by <<p, a>> (positions are 1-based).  These    *)
(* tuples stand for the addresses the code uses as map keys.               *)
(***************************************************************************)
Val(tag, a, b) == [tag |-> tag, a |-> a, b |-> b]
NoVal == Val("None", 0, 0)
\* operand kinds
VArg(a) == Val("Arg", a, 0)               \* llvm::Argument of the same function
VInst(b, i) == Val("Inst", b, i)          \* llvm::Instruction of the same function
VBlock(b) == Val("Block", b, 0)           \* llvm::BasicBlock of the same function
VMeta == Val("Meta", 0, 0)                \* llvm::MetadataAsValue
VInt(n) == Val("Int", n, 0)               \* llvm::ConstantInt
VFunc(t) == Val("Func", t, 0)             \* llvm::Function as a constant
VBlockAddr(t, b) == Val("BlockAddr", t, b) \* llvm::BlockAddress
VAsm == Val("Asm", 0, 0)                  \* llvm::InlineAsm (a callee only)
\* constants of the other classes: the tag is the class
VConst(class) == Val(class, 0, 0)
\* a data-sequential constant or a packed aggregate of the elements elems
VSeq(class, elems) == Val(class, elems, 0)
VGlobalVar(g) == Val("GlobalVariable", g, 0) \* the g-th global of the module
VAlias(named) == Val("GlobalAlias", 0, named)
VIFunc(named) == Val("GlobalIFunc", 0, named)
\* DSOLocalEquivalent or NoCFIValue of the global value gv
VMarker(class, gv) == Val(class, gv, 0)
\* a constant expression; inst is what getAsInstruction() returns
VExpr(inst) == Val("ConstantExpr", inst, 0)

\* the class of a constant and the class serialize_const groups it under
ConstClass ==
  [Int |-> <<"ConstantInt", "ConstantData">>,
   ConstantFP |-> <<"ConstantFP", "ConstantData">>,
   ConstantPointerNull |-> <<"ConstantPointerNull", "ConstantData">>,
   ConstantTokenNone |-> <<"ConstantTokenNone", "ConstantData">>,
   ConstantTargetNone |-> <<"ConstantTargetNone", "ConstantData">>,
   UndefValue |-> <<"UndefValue", "ConstantData">>,
   ConstantAggregateZero |-> <<"ConstantAggregateZero", "ConstantData">>,
   ConstantDataVector |-> <<"ConstantDataVector", "ConstantData">>,
   ConstantDataArray |-> <<"ConstantDataArray", "ConstantData">>,
   OtherConstantData |-> <<"", "ConstantData">>,
   ConstantVector |-> <<"ConstantVector", "ConstantAggregate">>,
   ConstantArray |-> <<"ConstantArray", "ConstantAggregate">>,
   ConstantStruct |-> <<"ConstantStruct", "ConstantAggregate">>,
   OtherConstantAggregate |-> <<"", "ConstantAggregate">>,
   GlobalVariable |-> <<"GlobalVariable", "GlobalValue">>,
   Func |-> <<"Function", "GlobalValue">>,
   GlobalAlias |-> <<"GlobalAlias", "GlobalValue">>,
   GlobalIFunc |-> <<"GlobalIFunc", "GlobalValue">>,
   OtherGlobalValue |-> <<"", "GlobalValue">>,
   BlockAddr |-> <<"BlockAddress", "BlockAddress">>,
   ConstantExpr |-> <<"ConstantExpr", "ConstantExpr">>,
   DSOLocalEquivalent |-> <<"DSOLocalEquivalent", "DSOLocalEquivalent">>,
   NoCFIValue |-> <<"NoCFIValue", "NoCFIValue">>,
   OtherConstant |-> <<"", "Constant">>]
ConstTags == DOMAIN ConstClass

\* inc holds the <<value, block>> pairs of a phi (its incoming pairs, in
\* operand order) or of a switch (its explicit cases, in case order)
InstP(kind, callee, ops, succs, inc) ==
  [kind |-> kind, callee |-> callee, ops |-> ops, succs |-> succs, inc |-> inc]
Inst(kind, callee, ops, succs) == InstP(kind, callee, ops, succs, <<>>)
Pair(value, block) == [value |-> value, block |-> block]
ICall(callee, args) == Inst("call", callee, args, <<>>)
IBinary(l, r) == Inst("binary", NoVal, <<l, r>>, <<>>)
IRet(v) == Inst("ret", NoVal, <<v>>, <<>>)
IRetVoid == Inst("ret", NoVal, <<>>, <<>>)
IBr(b) == Inst("br", NoVal, <<>>, <<b>>)
IUnreachable == Inst("unreachable", NoVal, <<>>, <<>>)
\* successor 0 of a switch is its default destination
ISwitch(cond, default, cases) == InstP("switch", NoVal, <<cond>>, <<default>>, cases)
IPhi(incoming) == InstP("phi", NoVal, <<>>, <<>>, incoming)
TerminatorKinds == {"ret", "br", "unreachable", "switch"}

\* iid is the class of Function::getIntrinsicID(): "none" is
\* Intrinsic::not_intrinsic, "dbg" an id accepted by isDbgInfoIntrinsic,
\* "other" any other intrinsic id.  prefix is Function::isIntrinsic(), i.e.
\* the name starts with "llvm.".
Fn(named, prefix, iid, nargs, blocks) ==
  [named |-> named, prefix |-> prefix, iid |-> iid, nargs |-> nargs,
   blocks |-> blocks]

\* The function shapes the input modules are built from.  p is the position
\* the function takes in its module; shapes that refer to another function
\* do so relative to p.
ShapeIds == 1..16
Shape(id, p) ==
  CASE id = 1 -> Fn(TRUE, TRUE, "dbg", 1, <<>>)
    [] id = 2 -> Fn(TRUE, TRUE, "other", 1, <<>>)
    [] id = 3 -> Fn(TRUE, FALSE, "none", 2,
                    << <<IBinary(VArg(1), VArg(2)), IRet(VInst(1, 1))>> >>)
    [] id = 4 -> Fn(FALSE, FALSE, "none", 0, << <<IBr(2)>>, <<IRetVoid>> >>)
    [] id = 5 -> Fn(TRUE, FALSE, "none", 1,
                    << <<ICall(VFunc(p + 1), <<VMeta>>),
                         IBinary(VArg(1), VInt(1)),
                         IRet(VInst(1, 2))>> >>)
    [] id = 6 -> Fn(TRUE, FALSE, "none", 1,
                    << <<IBinary(VArg(1), VInt(1)),
                         ICall(VFunc(p - 1), <<VMeta>>),
                         IBr(2)>>,
                       <<ICall(VFunc(p - 1), <<VMeta>>),
                         IRet(VInst(1, 1))>> >>)
    [] id = 7 -> Fn(TRUE, FALSE, "none", 1,
                    << <<ICall(VFunc(p + 1), <<VArg(1)>>),
                         IRet(VInst(1, 1))>> >>)
    [] id = 8 -> Fn(TRUE, FALSE, "none", 0,
                    << <<ICall(VFunc(p - 1), <<VFunc(p)>>),
                         IRet(VInst(1, 1))>> >>)
    [] id = 9 -> Fn(TRUE, FALSE, "none", 0,
                    << <<IBr(2)>>,
                       <<IBinary(VBlockAddr(p, 2), VInt(0)),
                         IRet(VInst(2, 1))>> >>)
    [] id = 10 -> Fn(TRUE, FALSE, "none", 0,
                     << <<IRet(VBlockAddr(p + 1, 2))>> >>)
    [] id = 11 -> Fn(TRUE, FALSE, "none", 0,
                     << <<IRet(VBlockAddr(p - 1, 2))>> >>)
    [] id = 12 -> Fn(TRUE, FALSE, "none", 0,
                     << <<IBr(2)>>,
                        <<IBinary(VBlock(1), VInt(0)), IRetVoid>> >>)
    [] id = 13 -> Fn(FALSE, FALSE, "none", 1,
                     << <<IBinary(VArg(1), VBlock(1)), IRetVoid>> >>)
    [] id = 14 -> Fn(TRUE, FALSE, "none", 1,
                     << <<ISwitch(VArg(1), 2,
                                  <<Pair(VInt(1), 2), Pair(VInt(2), 3)>>)>>,
                        <<IRetVoid>>,
                        <<IRetVoid>> >>)
    [] id = 15 -> Fn(TRUE, FALSE, "none", 1,
                     << <<IBinary(VArg(1), VInt(1)),
                          ISwitch(VInst(1, 1), 2, <<Pair(VInt(0), 3)>>)>>,
                        <<IBr(4)>>,
                        <<IBr(4)>>,
                        <<IPhi(<<Pair(VInt(1), 3), Pair(VInst(1, 1), 2)>>),
                          IBinary(VInst(4, 1), VArg(1)),
                          IRet(VInst(4, 2))>> >>)
    [] id = 16 -> Fn(TRUE, FALSE, "none", 1,
                     << <<IBinary(VArg(1), VInt(1)),
                          ICall(VFunc(p + 1), <<VMeta>>),
                          IBinary(VInst(1, 1), VInt(2)),
                          ISwitch(VInst(1, 3), 3, <<Pair(VInt(5), 2)>>)>>,
                        <<IBr(3)>>,
                        <<IPhi(<<Pair(VArg(1), 1), Pair(VInst(1, 1), 2)>>),
                          IRet(VInst(3, 1))>> >>)

\* A global variable: named or not, with an optional constant initializer.
Gv(named, init) == [named |-> named, init |-> init]
\* The lists of globals the input modules are built from, for a module of
\* n functions.
GlobalLists(n) ==
  { <<>>,
    << Gv(TRUE, VInt(7)) >>,
    << Gv(FALSE, NoVal), Gv(TRUE, VFunc(1)) >>,
    << Gv(TRUE, VBlockAddr(n, 2)) >> }

\* A module: identifier, module-level inline asm, identified struct types,
\* globals and functions.
Mod(funcs, globals) ==
  [name |-> "m", asm |-> "", structs |-> <<>>, funcs |-> funcs,
   globals |-> globals]


(***************************************************************************)
(* The IR input invariants: what the host's module verifier guarantees of  *)
(* a module that reaches the pass.                                         *)
(***************************************************************************)
NumFuncs(m) == Len(m.funcs)
HasBlock(m, t, b) == t \in 1..NumFuncs(m) /\ b \in 1..Len(m.funcs[t].blocks)
HasInst(m, p, b, i) == HasBlock(m, p, b) /\ i \in 1..Len(m.funcs[p].blocks[b])
InstAt(m, p, b, i) == m.funcs[p].blocks[b][i]

\* the called function of a call instruction (CallBase::getCalledFunction),
\* 0 when the callee is not a function of the module
CalledFunction(m, inst) ==
  IF inst.kind = "call" /\ inst.callee.tag = "Func"
     /\ inst.callee.a \in 1..NumFuncs(m)
  THEN inst.callee.a ELSE 0

\* an instruction of void type cannot be an operand
IsVoidInst(m, inst) ==
  \/ inst.kind \in TerminatorKinds
  \/ /\ CalledFunction(m, inst) # 0
     /\ m.funcs[CalledFunction(m, inst)].iid = "dbg"

ConstOK(m, v) ==
  CASE v.tag = "Int" -> TRUE
    [] v.tag = "Func" -> v.a \in 1..NumFuncs(m) /\ ~m.funcs[v.a].prefix
    [] v.tag = "BlockAddr" -> v.b >= 2 /\ HasBlock(m, v.a, v.b)
    [] OTHER -> FALSE

OperandOK(m, p, inst, v) ==
  CASE v.tag = "Arg" -> v.a \in 1..m.funcs[p].nargs
    [] v.tag = "Inst" -> /\ HasInst(m, p, v.a, v.b)
                         /\ ~IsVoidInst(m, InstAt(m, p, v.a, v.b))
    [] v.tag = "Block" -> HasBlock(m, p, v.a)
    [] v.tag = "Meta" -> /\ CalledFunction(m, inst) # 0
                         /\ m.funcs[CalledFunction(m, inst)].prefix
    [] OTHER -> ConstOK(m, v)

InstOK(m, p, inst) ==
  /\ inst.kind = "call" => /\ inst.callee.tag = "Func"
                           /\ inst.callee.a \in 1..NumFuncs(m)
  /\ \A k \in 1..Len(inst.ops) : OperandOK(m, p, inst, inst.ops[k])
  /\ \A k \in 1..Len(inst.succs) : HasBlock(m, p, inst.succs[k])
  /\ \A k \in 1..Len(inst.inc) :
       /\ HasBlock(m, p, inst.inc[k].block)
       /\ OperandOK(m, p, inst, inst.inc[k].value)
  \* the case values of a switch are pairwise distinct integer constants
  /\ inst.kind = "switch" =>
       \A j, k \in 1..Len(inst.inc) :
         /\ inst.inc[k].value.tag = "Int"
         /\ inst.inc[j].value = inst.inc[k].value => j = k
  \* the entries of a phi for one block carry one value
  /\ inst.kind = "phi" =>
       \A j, k \in 1..Len(inst.inc) :
         inst.inc[j].block = inst.inc[k].block =>
           inst.inc[j].value = inst.inc[k].value

BlockOK(m, p, blk) ==
  /\ Len(blk) >= 1
  /\ \A i \in 1..Len(blk) :
       /\ (blk[i].kind \in TerminatorKinds) <=> (i = Len(blk))
       /\ InstOK(m, p, blk[i])

FuncOK(m, p) ==
  LET fn == m.funcs[p] IN
  /\ fn.iid # "none" => fn.prefix
  /\ fn.prefix => fn.named /\ fn.blocks = <<>>
  /\ \A b \in 1..Len(fn.blocks) : BlockOK(m, p, fn.blocks[b])

WellFormed(m) ==
  /\ \A p \in 1..NumFuncs(m) : FuncOK(m, p)
  /\ \A g \in 1..Len(m.globals) :
       m.globals[g].init # NoVal => ConstOK(m, m.globals[g].init)

\* the module of the functions of shapes s and the globals g
ModuleOf(s, g) == Mod([i \in DOMAIN s |-> Shape(s[i], i)], g)
ModulesOfSize(n) ==
  { ModuleOf(c[1], c[2]) :
      c \in { d \in [1..n -> ShapeIds] \X GlobalLists(n) :
                WellFormed(ModuleOf(d[1], d[2])) } }
Modules == UNION { ModulesOfSize(n) : n \in 0..MaxFuncs }

(***************************************************************************)
(* Metadata probe.                                                         *)
(***************************************************************************)
isDbgInfoIntrinsic(iid) == iid = "dbg"

is_debug_function(fn) ==
  fn.iid # "none" /\ isDbgInfoIntrinsic(fn.iid)

\* isa<IntrinsicInst>: a call whose called function isIntrinsic()
isa_IntrinsicInst(m, inst) ==
  CalledFunction(m, inst) # 0 /\ m.funcs[CalledFunction(m, inst)].prefix

\* is_debug_instruction without the isDbgInfoIntrinsic test
is_debug_instruction_any_intrinsic(m, inst) ==
  isa_IntrinsicInst(m, inst)

\* is_debug_instruction that recognizes nothing
is_debug_instruction_never(m, inst) == FALSE

is_debug_instruction(m, inst) ==
  IF isa_IntrinsicInst(m, inst)
  THEN isDbgInfoIntrinsic(m.funcs[CalledFunction(m, inst)].iid)
  ELSE FALSE

(***************************************************************************)
(* FunctionSerializationContext: three label maps keyed by entity.         *)
(***************************************************************************)
EmptyMap == [k \in {} |-> 0]
EmptyCtx ==
  [block_labels |-> EmptyMap, inst_labels |-> EmptyMap,
   arg_labels |-> EmptyMap]

\* an insertion that assigns over a key already present
emplace_overwrite(map, key, index) ==
  [k \in (DOMAIN map) \cup {key} |-> IF k = key THEN index ELSE map[k]]

\* std::map::emplace(key, index): inserts unless the key is present
emplace(map, key, index) ==
  IF key \in DOMAIN map THEN map ELSE map @@ (key :> index)

add_block(ctx, block) ==
  LET index == Cardinality(DOMAIN ctx.block_labels) IN
  [ctx EXCEPT !.block_labels = emplace(@, block, index)]

add_instruction(ctx, inst) ==
  LET index == Cardinality(DOMAIN ctx.inst_labels) IN
  [ctx EXCEPT !.inst_labels = emplace(@, inst, index)]

\* add_argument taking its index from the instruction map
add_argument_inst_size(ctx, arg) ==
  LET index == Cardinality(DOMAIN ctx.inst_labels) IN
  [ctx EXCEPT !.arg_labels = emplace(@, arg, index)]

add_argument(ctx, arg) ==
  LET index == Cardinality(DOMAIN ctx.arg_labels) IN
  [ctx EXCEPT !.arg_labels = emplace(@, arg, index)]

\* std::map::at: NoLabel stands for the std::out_of_range it throws
NoLabel == -1
get_block(ctx, block) ==
  IF block \in DOMAIN ctx.block_labels THEN ctx.block_labels[block] ELSE NoLabel
get_instruction(ctx, inst) ==
  IF inst \in DOMAIN ctx.inst_labels THEN ctx.inst_labels[inst] ELSE NoLabel
get_argument(ctx, arg) ==
  IF arg \in DOMAIN ctx.arg_labels THEN ctx.arg_labels[arg] ELSE NoLabel


(***************************************************************************)
(* Outcomes that end the process.  A LOG->fatal call names its message; an *)
(* uncaught std::out_of_range from std::map::at ends it without one.       *)
(***************************************************************************)
NoFatal == ""
MsgMaterialize == "unable to materialize module"
MsgUnnamedTarget == "block address referring to an unnamed function"
MsgNotReady == "function context not ready"
MsgCreate == "unable to create output file"
ExcOutOfRange == "std::out_of_range"

\* the first failure met, in evaluation order
FirstFatal(reasons) ==
  IF \E k \in 1..Len(reasons) : reasons[k] # NoFatal
  THEN reasons[CHOOSE k \in 1..Len(reasons) :
                 /\ reasons[k] # NoFatal
                 /\ \A j \in 1..(k - 1) : reasons[j] = NoFatal]
  ELSE NoFatal

(***************************************************************************)
(* JSON values.  Every emitted object is a record over the same fields so  *)
(* that documents can be compared; the fields a variant does not carry are *)
(* 0 / FALSE.  Names are the positions of the named entity.                *)
(***************************************************************************)
JV(tag, sub, index, has_name, name, block) ==
  [tag |-> tag, sub |-> sub, index |-> index, has_name |-> has_name,
   name |-> name, block |-> block]
getName(p) == p

(***************************************************************************)
(* Type serializer.  A type is its Type::TypeID, its contained types, and  *)
(* a number (bit width, length or address space).  A JSON object is a      *)
(* function from its keys.                                                 *)
(***************************************************************************)
Ty(id, sub, n) == [id |-> id, sub |-> sub, n |-> n]

\* the type kinds serialize_type has a case label for
TypeIDs ==
  {"VoidTyID", "IntegerTyID", "HalfTyID", "BFloatTyID", "FloatTyID",
   "DoubleTyID", "X86_FP80TyID", "FP128TyID", "PPC_FP128TyID", "ArrayTyID",
   "StructTyID", "FunctionTyID", "PointerTyID", "FixedVectorTyID",
   "ScalableVectorTyID", "TargetExtTyID", "TypedPointerTyID", "LabelTyID",
   "TokenTyID", "X86_AMXTyID", "X86_MMXTyID", "MetadataTyID"}
\* a value of Type::TypeID no case label of serialize_type matches
OtherTyID == "OtherTyID"

null == [null |-> TRUE]
EmptyObject == [k \in {} |-> null]
mk_float(width, name) == [width |-> width, name |-> name]

RECURSIVE serialize_type(_)
serialize_type_int(type) == [width |-> type.n]
serialize_type_array(type) ==
  [element |-> serialize_type(type.sub[1]), length |-> type.n]
\* n = 0 is an opaque struct
serialize_type_struct(type) ==
  IF type.n = 0 THEN EmptyObject
  ELSE ("fields" :> [k \in 1..Len(type.sub) |-> serialize_type(type.sub[k])])
\* sub is the return type followed by the parameter types
serialize_type_function(type) ==
  [params |-> [k \in 1..(Len(type.sub) - 1) |-> serialize_type(type.sub[k + 1])],
   variadic |-> type.n = 1,
   ret |-> serialize_type(type.sub[1])]
serialize_type_pointer(type) == [address_space |-> type.n]
serialize_type_vector(type) ==
  [element |-> serialize_type(type.sub[1]),
   fixed |-> type.id = "FixedVectorTyID",
   length |-> type.n]
serialize_type_extension(type) ==
  [params |-> [k \in 1..Len(type.sub) |-> serialize_type(type.sub[k])]]
serialize_type_typed_pointer(type) ==
  [pointee |-> serialize_type(type.sub[1]), address_space |-> type.n]

\* no case label matches and the switch has no default: control reaches
\* return result with the object still empty
serialize_type_unmatched(type) ==
  EmptyObject

serialize_type(type) ==
  CASE type.id = "VoidTyID" -> "Void" :> null
    [] type.id = "IntegerTyID" -> "Int" :> serialize_type_int(type)
    [] type.id = "HalfTyID" -> "Float" :> mk_float(16, "half")
    [] type.id = "BFloatTyID" -> "Float" :> mk_float(16, "bfloat")
    [] type.id = "FloatTyID" -> "Float" :> mk_float(32, "float")
    [] type.id = "DoubleTyID" -> "Float" :> mk_float(64, "double")
    [] type.id = "X86_FP80TyID" -> "Float" :> mk_float(80, "x86_fp80")
    [] type.id = "FP128TyID" -> "Float" :> mk_float(128, "fp128")
    [] type.id = "PPC_FP128TyID" -> "Float" :> mk_float(128, "ppc_fp128")
    [] type.id = "ArrayTyID" -> "Array" :> serialize_type_array(type)
    [] type.id = "StructTyID" -> "Struct" :> serialize_type_struct(type)
    [] type.id = "FunctionTyID" -> "Function" :> serialize_type_function(type)
    [] type.id = "PointerTyID" -> "Pointer" :> serialize_type_pointer(type)
    [] type.id \in {"FixedVectorTyID", "ScalableVectorTyID"} ->
         "Vector" :> serialize_type_vector(type)
    [] type.id = "TargetExtTyID" -> "Extension" :> serialize_type_extension(type)
    [] type.id = "TypedPointerTyID" ->
         "TypedPointer" :> serialize_type_typed_pointer(type)
    [] type.id = "LabelTyID" -> "Label" :> null
    [] type.id \in {"TokenTyID", "X86_AMXTyID", "X86_MMXTyID"} -> "Token" :> null
    [] type.id = "MetadataTyID" -> "Metadata" :> null
    [] OTHER -> serialize_type_unmatched(type)

\* serialize_type calls neither LOG->fatal nor llvm_unreachable (the one in
\* serialize_type_vector guards a cast that the case label has decided)
type_fatal(type) == NoFatal

(***************************************************************************)
(* Constant serializer.                                                    *)
(***************************************************************************)
\* the sanity checks and the registry lookup shared by
\* serialize_block_address and serialize_value_block
block_ref_fatal(ctxs, m, t, b) ==
  IF ~m.funcs[t].named THEN MsgUnnamedTarget
  ELSE IF t \notin DOMAIN ctxs THEN MsgNotReady
  ELSE IF get_block(ctxs[t], <<t, b>>) = NoLabel THEN ExcOutOfRange
  ELSE NoFatal

\* {func, block} of a block address; meaningful when block_ref_fatal is
\* NoFatal
serialize_block_address(ctxs, m, v) ==
  [func |-> getName(v.a),
   block |-> IF v.a \in DOMAIN ctxs
             THEN get_block(ctxs[v.a], <<v.a, v.b>>) ELSE NoLabel]

\* serialize_const_ref_global: the name only when the global has one
serialize_const_ref_function(m, v) ==
  [has_name |-> m.funcs[v.a].named,
   name |-> IF m.funcs[v.a].named THEN getName(v.a) ELSE 0]

\* isa<class>(val) for a constant
isa_const(v, class) ==
  class \in {ConstClass[v.tag][1], ConstClass[v.tag][2]}

\* val.getType(), for the constants whose class fixes it
getType(v) ==
  CASE v.tag = "Int" -> Ty("IntegerTyID", <<>>, 32)
    [] v.tag = "ConstantFP" -> Ty("DoubleTyID", <<>>, 0)
    [] v.tag \in {"GlobalVariable", "Func", "GlobalAlias", "GlobalIFunc",
                  "BlockAddr", "ConstantPointerNull", "DSOLocalEquivalent",
                  "NoCFIValue"} -> Ty("PointerTyID", <<>>, 0)

\* a constant variant other than Int, Function and Label
JC(sub, payload) == [tag |-> "Constant", sub |-> sub, payload |-> payload]

MsgUnknownConstantData == "unknown constant data"
MsgUnknownConstantAggregate == "unknown constant aggregate"
MsgUnknownGlobalValue == "unknown constant reference to global value"
MsgUnknownConstant == "unknown constant"

\* the key serialize_const stores under, or the message of the fatal call
\* it reaches
ConstDispatch(v) ==
  IF isa_const(v, "DSOLocalEquivalent") THEN "Marker"
  ELSE IF isa_const(v, "NoCFIValue") THEN "Marker"
  ELSE IF isa_const(v, "ConstantData")
  THEN (IF isa_const(v, "ConstantInt") THEN "Int"
        ELSE IF isa_const(v, "ConstantFP") THEN "Float"
        ELSE IF isa_const(v, "ConstantPointerNull") THEN "Null"
        ELSE IF isa_const(v, "ConstantTokenNone") THEN "None"
        ELSE IF isa_const(v, "ConstantTargetNone") THEN "Extension"
        ELSE IF isa_const(v, "UndefValue") THEN "Undef"
        ELSE IF isa_const(v, "ConstantAggregateZero") THEN "Default"
        ELSE IF isa_const(v, "ConstantDataVector") THEN "Vector"
        ELSE IF isa_const(v, "ConstantDataArray") THEN "Array"
        ELSE MsgUnknownConstantData)
  ELSE IF isa_const(v, "ConstantAggregate")
  THEN (IF isa_const(v, "ConstantVector") THEN "Vector"
        ELSE IF isa_const(v, "ConstantArray") THEN "Array"
        ELSE IF isa_const(v, "ConstantStruct") THEN "Struct"
        ELSE MsgUnknownConstantAggregate)
  ELSE IF isa_const(v, "GlobalValue")
  THEN (IF isa_const(v, "GlobalVariable") THEN "Variable"
        ELSE IF isa_const(v, "Function") THEN "Function"
        ELSE IF isa_const(v, "GlobalAlias") THEN "Alias"
        ELSE IF isa_const(v, "GlobalIFunc") THEN "Interface"
        ELSE MsgUnknownGlobalValue)
  ELSE IF isa_const(v, "BlockAddress") THEN "Label"
  ELSE IF isa_const(v, "ConstantExpr") THEN "Expr"
  ELSE MsgUnknownConstant

ConstFatalMessages ==
  {MsgUnknownConstantData, MsgUnknownConstantAggregate, MsgUnknownGlobalValue,
   MsgUnknownConstant}

RECURSIVE serialize_const(_, _, _)
RECURSIVE const_fatal(_, _, _)
RECURSIVE serialize_inst(_, _, _, _, _)
RECURSIVE inst_fatal(_, _, _, _, _)

serialize_constant(ctxs, m, v) ==
  [ty |-> serialize_type(getType(v)), repr |-> serialize_const(ctxs, m, v)]

\* serialize_const_data_sequence and serialize_const_pack_aggregate
serialize_const_elements(ctxs, m, v) ==
  [elements |-> [k \in 1..Len(v.a) |-> serialize_constant(ctxs, m, v.a[k])]]

\* serialize_const_ref_global of a variable, an alias or an ifunc
serialize_const_ref_global(m, v) ==
  LET named == IF v.tag = "GlobalVariable" THEN m.globals[v.a].named
               ELSE v.b IN
  [has_name |-> named, name |-> IF named THEN getName(v.a) ELSE 0]

\* the marker that wraps the bare variant of the global value
serialize_const_marker_bare(ctxs, m, gv) ==
  [wrap |-> serialize_const(ctxs, m, gv)]

serialize_const_marker(ctxs, m, gv) ==
  [wrap |-> serialize_constant(ctxs, m, gv)]

\* the instruction is detached and its context is a fresh, empty one
serialize_const_expr(ctxs, m, v) ==
  [inst |-> serialize_inst(EmptyCtx, ctxs, m, 0, v.a)]

serialize_const(ctxs, m, v) ==
  LET key == ConstDispatch(v) IN
  CASE key = "Marker" -> JC(key, serialize_const_marker(ctxs, m, v.a))
    [] key = "Int" -> JV("Constant", "Int", v.a, FALSE, 0, 0)
    [] key = "Float" -> JC(key, [value |-> "double"])
    [] key \in {"Null", "None", "Extension", "Undef", "Default"} ->
         JC(key, null)
    [] key \in {"Vector", "Array", "Struct"} ->
         JC(key, serialize_const_elements(ctxs, m, v))
    [] key \in {"Variable", "Alias", "Interface"} ->
         JC(key, serialize_const_ref_global(m, v))
    [] key = "Function" ->
         LET r == serialize_const_ref_function(m, v) IN
         JV("Constant", "Function", 0, r.has_name, r.name, 0)
    [] key = "Label" ->
         LET r == serialize_block_address(ctxs, m, v) IN
         JV("Constant", "Label", 0, TRUE, r.func, r.block)
    [] key = "Expr" -> JC(key, serialize_const_expr(ctxs, m, v))
    [] OTHER -> EmptyObject

const_fatal(ctxs, m, v) ==
  LET key == ConstDispatch(v) IN
  CASE key \in ConstFatalMessages -> key
    [] key = "Marker" -> const_fatal(ctxs, m, v.a)
    [] key \in {"Vector", "Array", "Struct"} ->
         FirstFatal([k \in 1..Len(v.a) |-> const_fatal(ctxs, m, v.a[k])])
    [] key = "Label" -> block_ref_fatal(ctxs, m, v.a, v.b)
    [] key = "Expr" -> inst_fatal(EmptyCtx, ctxs, m, 0, v.a)
    [] OTHER -> NoFatal

(***************************************************************************)
(* Value serializer (methods of the context ctx of function p).            *)
(***************************************************************************)
serialize_value_argument(ctx, p, v) ==
  JV("Argument", "", get_argument(ctx, <<p, v.a>>), FALSE, 0, 0)

serialize_value_instruction(ctx, p, v) ==
  JV("Instruction", "", get_instruction(ctx, <<p, v.a, v.b>>), FALSE, 0, 0)

\* block.getParent() is p; the label comes from the registry
serialize_value_block(ctxs, m, p, v) ==
  JV("Label", "", 0, TRUE, getName(p),
     IF p \in DOMAIN ctxs THEN get_block(ctxs[p], <<p, v.a>>) ELSE NoLabel)

serialize_value(ctx, ctxs, m, p, v) ==
  CASE v.tag = "Arg" -> serialize_value_argument(ctx, p, v)
    [] v.tag \in ConstTags -> serialize_const(ctxs, m, v)
    [] v.tag = "Inst" -> serialize_value_instruction(ctx, p, v)
    [] v.tag = "Block" -> serialize_value_block(ctxs, m, p, v)
    [] v.tag = "Meta" -> JV("Metadata", "", 0, FALSE, 0, 0)

value_fatal(ctx, ctxs, m, p, v) ==
  CASE v.tag = "Arg" ->
         IF get_argument(ctx, <<p, v.a>>) = NoLabel
         THEN ExcOutOfRange ELSE NoFatal
    [] v.tag \in ConstTags -> const_fatal(ctxs, m, v)
    [] v.tag = "Inst" ->
         IF get_instruction(ctx, <<p, v.a, v.b>>) = NoLabel
         THEN ExcOutOfRange ELSE NoFatal
    [] v.tag = "Block" -> block_ref_fatal(ctxs, m, p, v.a)
    [] v.tag = "Meta" -> NoFatal


(***************************************************************************)
(* Instruction serializer.                                                 *)
(***************************************************************************)
\* the incoming value at the position the block has among the incoming
\* blocks taken in block order
getIncomingValueByPosition(inst, block) ==
  inst.inc[Cardinality({ b \in { inst.inc[k].block : k \in 1..Len(inst.inc) } :
                          b <= block })].value

\* PHINode::getIncomingValueForBlock: the value of the first incoming pair
\* of that block
getIncomingValueForBlock(inst, block) ==
  inst.inc[CHOOSE k \in 1..Len(inst.inc) :
             /\ inst.inc[k].block = block
             /\ \A j \in 1..(k - 1) : inst.inc[j].block # block].value

\* the value serialized for the k-th pair of a phi or a switch
PairValue(inst, k) ==
  IF inst.kind = "phi" THEN getIncomingValueForBlock(inst, inst.inc[k].block)
  ELSE inst.inc[k].value

\* the operands an instruction serializes through serialize_value, in the
\* order the code visits them (the callee of a call first)
InstValues(inst) ==
  (IF inst.kind \in {"call", "invoke"} /\ inst.callee.tag # "Asm"
   THEN <<inst.callee>> ELSE <<>>) \o inst.ops
    \o [k \in 1..Len(inst.inc) |-> PairValue(inst, k)]

\* the class of an instruction of each kind, as isa<> sees it
InstClass ==
  [alloca |-> "AllocaInst", load |-> "LoadInst", store |-> "StoreInst",
   va_arg |-> "VAArgInst", call |-> "CallInst", unary |-> "UnaryOperator",
   binary |-> "BinaryOperator", cmp |-> "CmpInst", cast |-> "CastInst",
   freeze |-> "FreezeInst", gep |-> "GetElementPtrInst", phi |-> "PHINode",
   select |-> "SelectInst", extractvalue |-> "ExtractValueInst",
   insertvalue |-> "InsertValueInst", extractelement |-> "ExtractElementInst",
   insertelement |-> "InsertElementInst",
   shufflevector |-> "ShuffleVectorInst", fence |-> "FenceInst",
   cmpxchg |-> "AtomicCmpXchgInst", atomicrmw |-> "AtomicRMWInst",
   landingpad |-> "LandingPadInst", catchpad |-> "CatchPadInst",
   cleanuppad |-> "CleanupPadInst", ret |-> "ReturnInst", br |-> "BranchInst",
   switch |-> "SwitchInst", indirectbr |-> "IndirectBrInst",
   invoke |-> "InvokeInst", resume |-> "ResumeInst",
   unreachable |-> "UnreachableInst", catchswitch |-> "CatchSwitchInst",
   catchret |-> "CatchReturnInst", cleanupret |-> "CleanupReturnInst",
   callbr |-> "CallBrInst", other |-> "Instruction"]

\* isa<class>(inst); IntrinsicInst is the one subclass tested of a class
\* that is tested too
isa(m, inst, class) ==
  IF class = "IntrinsicInst" THEN isa_IntrinsicInst(m, inst)
  ELSE InstClass[inst.kind] = class

\* CallBase::isInlineAsm
isInlineAsm(inst) == inst.callee.tag = "Asm"

\* the key serialize_inst stores under, "" when it reaches the final else
InstDispatch(m, inst) ==
  IF isa(m, inst, "AllocaInst") THEN "Alloca"
  ELSE IF isa(m, inst, "LoadInst") THEN "Load"
  ELSE IF isa(m, inst, "StoreInst") THEN "Store"
  ELSE IF isa(m, inst, "VAArgInst") THEN "VAArg"
  ELSE IF isa(m, inst, "CallInst")
  THEN (IF isa(m, inst, "IntrinsicInst") THEN "Intrinsic"
        ELSE IF isInlineAsm(inst) THEN "CallAsm"
        ELSE IF inst.callee.tag = "Func" THEN "CallDirect"
        ELSE "CallIndirect")
  ELSE IF isa(m, inst, "UnaryOperator") THEN "Unary"
  ELSE IF isa(m, inst, "BinaryOperator") THEN "Binary"
  ELSE IF isa(m, inst, "CmpInst") THEN "Compare"
  ELSE IF isa(m, inst, "CastInst") THEN "Cast"
  ELSE IF isa(m, inst, "FreezeInst") THEN "Freeze"
  ELSE IF isa(m, inst, "GetElementPtrInst") THEN "GEP"
  ELSE IF isa(m, inst, "PHINode") THEN "Phi"
  ELSE IF isa(m, inst, "SelectInst") THEN "ITE"
  ELSE IF isa(m, inst, "ExtractValueInst") THEN "GetValue"
  ELSE IF isa(m, inst, "InsertValueInst") THEN "SetValue"
  ELSE IF isa(m, inst, "ExtractElementInst") THEN "GetElement"
  ELSE IF isa(m, inst, "InsertElementInst") THEN "SetElement"
  ELSE IF isa(m, inst, "ShuffleVectorInst") THEN "ShuffleVector"
  ELSE IF isa(m, inst, "FenceInst") THEN "Fence"
  ELSE IF isa(m, inst, "AtomicCmpXchgInst") THEN "AtomicCmpXchg"
  ELSE IF isa(m, inst, "AtomicRMWInst") THEN "AtomicRMW"
  ELSE IF isa(m, inst, "LandingPadInst") THEN "LandingPad"
  ELSE IF isa(m, inst, "CatchPadInst") THEN "CatchPad"
  ELSE IF isa(m, inst, "CleanupPadInst") THEN "CleanupPad"
  ELSE IF isa(m, inst, "ReturnInst") THEN "Return"
  ELSE IF isa(m, inst, "BranchInst") THEN "Branch"
  ELSE IF isa(m, inst, "SwitchInst") THEN "Switch"
  ELSE IF isa(m, inst, "IndirectBrInst") THEN "IndirectJump"
  ELSE IF isa(m, inst, "InvokeInst")
  THEN (IF isInlineAsm(inst) THEN "InvokeAsm"
        ELSE IF inst.callee.tag = "Func" THEN "InvokeDirect"
        ELSE "InvokeIndirect")
  ELSE IF isa(m, inst, "ResumeInst") THEN "Resume"
  ELSE IF isa(m, inst, "UnreachableInst") THEN "Unreachable"
  ELSE IF isa(m, inst, "CatchSwitchInst") THEN "CatchSwitch"
  ELSE IF isa(m, inst, "CatchReturnInst") THEN "CatchReturn"
  ELSE IF isa(m, inst, "CleanupReturnInst") THEN "CleanupReturn"
  ELSE IF isa(m, inst, "CallBrInst") THEN "CallBranch"
  ELSE ""

\* the dispatch without its FreezeInst branch
InstDispatchWithoutFreeze(m, inst) ==
  IF isa(m, inst, "FreezeInst") THEN "" ELSE InstDispatch(m, inst)

InstTag(m, inst) == InstDispatch(m, inst)

MsgUnknownInstruction == "unknown instruction"

\* SwitchInst::DefaultPseudoIndex, the case index of case_default(): the
\* unsigned ~0U - 1, written as the 32-bit two's complement number it is
\* (case indices are compared for equality only)
DefaultPseudoIndex == -2

\* the explicit cases SwitchInst::cases() visits that serialize_inst_switch
\* does not skip: case k has index k - 1, case_end() has index getNumCases()
\* the cases kept are those whose successor is not the default destination
RECURSIVE SwitchCasesNotToDefault(_, _)
SwitchCasesNotToDefault(inst, n) ==
  IF n = 0 THEN <<>>
  ELSE IF inst.inc[n].block = inst.succs[1]
  THEN SwitchCasesNotToDefault(inst, n - 1)
  ELSE Append(SwitchCasesNotToDefault(inst, n - 1), n)

RECURSIVE SwitchCasesKept(_, _)
SwitchCasesKept(inst, n) ==
  IF n = 0 THEN <<>>
  ELSE IF DefaultPseudoIndex # Len(inst.inc) /\ n - 1 = DefaultPseudoIndex
  THEN SwitchCasesKept(inst, n - 1)
  ELSE Append(SwitchCasesKept(inst, n - 1), n)

\* serialize_inst_switch taking the successor of case k at successor index
\* k, where the default destination is successor 0
serialize_inst_switch_successor_index(ctx, ctxs, m, p, inst) ==
  LET kept == SwitchCasesKept(inst, Len(inst.inc))
      successors == <<inst.succs[1]>>
                      \o [k \in 1..Len(inst.inc) |-> inst.inc[k].block] IN
  [cases |-> [k \in 1..Len(kept) |->
                [block |-> get_block(ctx, <<p, successors[kept[k]]>>),
                 value |-> serialize_const(ctxs, m, inst.inc[kept[k]].value)]],
   has_default |-> DefaultPseudoIndex # Len(inst.inc),
   default |-> IF DefaultPseudoIndex # Len(inst.inc)
               THEN get_block(ctx, <<p, inst.succs[1]>>) ELSE NoLabel]

\* {cases, default?} of a switch
serialize_inst_switch(ctx, ctxs, m, p, inst) ==
  LET kept == SwitchCasesKept(inst, Len(inst.inc)) IN
  [cases |-> [k \in 1..Len(kept) |->
                [block |-> get_block(ctx, <<p, inst.inc[kept[k]].block>>),
                 value |-> serialize_const(ctxs, m, inst.inc[kept[k]].value)]],
   has_default |-> DefaultPseudoIndex # Len(inst.inc),
   default |-> IF DefaultPseudoIndex # Len(inst.inc)
               THEN get_block(ctx, <<p, inst.succs[1]>>) ELSE NoLabel]

\* {options} of a phi: one entry per incoming pair, in operand order
serialize_inst_phi(ctx, ctxs, m, p, inst) ==
  [k \in 1..Len(inst.inc) |->
     [block |-> get_block(ctx, <<p, inst.inc[k].block>>),
      value |-> serialize_value(ctx, ctxs, m, p,
                  getIncomingValueForBlock(inst, inst.inc[k].block))]]

NoSwitch == [cases |-> <<>>, has_default |-> FALSE, default |-> NoLabel]

\* vals: every value object of the instruction, in the order serialized;
\* targets: the targets array of a branch
serialize_inst(ctx, ctxs, m, p, inst) ==
  LET vs == InstValues(inst) IN
  [tag |-> InstTag(m, inst),
   vals |-> [k \in 1..Len(vs) |-> serialize_value(ctx, ctxs, m, p, vs[k])],
   targets |-> IF inst.kind \in {"br", "indirectbr"}
               THEN [k \in 1..Len(inst.succs) |->
                       get_block(ctx, <<p, inst.succs[k]>>)]
               ELSE <<>>,
   switch |-> IF inst.kind = "switch"
              THEN serialize_inst_switch(ctx, ctxs, m, p, inst) ELSE NoSwitch,
   options |-> IF inst.kind = "phi"
               THEN serialize_inst_phi(ctx, ctxs, m, p, inst) ELSE <<>>]

\* the envelope {index, repr} of the instruction at <<p, b, i>>
serialize_instruction(ctx, ctxs, m, p, b, i) ==
  [index |-> get_instruction(ctx, <<p, b, i>>),
   repr |-> serialize_inst(ctx, ctxs, m, p, InstAt(m, p, b, i))]

\* the failure serialize_inst ends in, if any
inst_fatal(ctx, ctxs, m, p, inst) ==
  LET vs == InstValues(inst) IN
  FirstFatal(
    << IF InstTag(m, inst) = "" THEN MsgUnknownInstruction ELSE NoFatal >>
    \o [k \in 1..Len(vs) |-> value_fatal(ctx, ctxs, m, p, vs[k])]
    \o [k \in 1..Len(inst.succs) |->
          IF get_block(ctx, <<p, inst.succs[k]>>) = NoLabel
          THEN ExcOutOfRange ELSE NoFatal]
    \o [k \in 1..Len(inst.inc) |->
          IF get_block(ctx, <<p, inst.inc[k].block>>) = NoLabel
          THEN ExcOutOfRange ELSE NoFatal])

instruction_fatal(ctx, ctxs, m, p, b, i) ==
  FirstFatal(
    << IF get_instruction(ctx, <<p, b, i>>) = NoLabel
       THEN ExcOutOfRange ELSE NoFatal,
       inst_fatal(ctx, ctxs, m, p, InstAt(m, p, b, i)) >>)

\* ConstantExpr::getAsInstruction: a newly allocated instruction that has
\* no parent block
NoParent == 0
getAsInstruction(v) == [inst |-> v.a, parent |-> NoParent]

\* the instructions serialize_const_expr has allocated and not deleted when
\* the serialization of the constant v returns: the code has no deleteValue
RECURSIVE TemporariesOf(_)
TemporariesOf(v) ==
  IF v.tag = "ConstantExpr"
  THEN {getAsInstruction(v)}
         \cup UNION { TemporariesOf(InstValues(v.a)[k]) :
                        k \in 1..Len(InstValues(v.a)) }
  ELSE IF v.tag \in {"ConstantDataVector", "ConstantDataArray",
                     "ConstantVector", "ConstantArray", "ConstantStruct"}
  THEN UNION { TemporariesOf(v.a[k]) : k \in 1..Len(v.a) }
  ELSE {}

(***************************************************************************)
(* Function / block serializer.                                            *)
(***************************************************************************)
\* BasicBlock::getTerminator: the position of the last instruction
TerminatorPos(m, p, b) == Len(m.funcs[p].blocks[b])

\* the positions serialize_block pushes to body, from position i on
RECURSIVE BodyFrom(_, _, _, _)
BodyFrom(m, p, b, i) ==
  IF i > Len(m.funcs[p].blocks[b]) THEN <<>>
  ELSE IF i = TerminatorPos(m, p, b) THEN BodyFrom(m, p, b, i + 1)
  ELSE IF is_debug_instruction(m, InstAt(m, p, b, i))
       THEN BodyFrom(m, p, b, i + 1)
  ELSE <<i>> \o BodyFrom(m, p, b, i + 1)
\* the body pushed in reverse
BodyPositionsReversed(m, p, b) ==
  LET body == BodyFrom(m, p, b, 1) IN
  [k \in 1..Len(body) |-> body[Len(body) + 1 - k]]
BodyPositions(m, p, b) == BodyFrom(m, p, b, 1)

\* serialize_block that pushes the terminator to body as well
serialize_block_terminator_in_body(ctx, ctxs, m, p, b) ==
  LET body == BodyPositions(m, p, b) \o <<TerminatorPos(m, p, b)>> IN
  [label |-> get_block(ctx, <<p, b>>),
   body |-> [k \in 1..Len(body) |->
               serialize_instruction(ctx, ctxs, m, p, b, body[k])],
   terminator |->
     serialize_instruction(ctx, ctxs, m, p, b, TerminatorPos(m, p, b))]

serialize_block(ctx, ctxs, m, p, b) ==
  LET body == BodyPositions(m, p, b) IN
  [label |-> get_block(ctx, <<p, b>>),
   body |-> [k \in 1..Len(body) |->
               serialize_instruction(ctx, ctxs, m, p, b, body[k])],
   terminator |->
     serialize_instruction(ctx, ctxs, m, p, b, TerminatorPos(m, p, b))]

block_fatal(ctx, ctxs, m, p, b) ==
  LET body == BodyPositions(m, p, b) IN
  FirstFatal(
    << IF get_block(ctx, <<p, b>>) = NoLabel THEN ExcOutOfRange ELSE NoFatal >>
    \o [k \in 1..Len(body) |-> instruction_fatal(ctx, ctxs, m, p, b, body[k])]
    \o << instruction_fatal(ctx, ctxs, m, p, b, TerminatorPos(m, p, b)) >>)

\* the labelling loops: arguments a..n, instructions i.. of block b, blocks
\* b.. of function p, each block followed by its instructions
RECURSIVE LabelArguments(_, _, _)
LabelArguments(ctx, p, a) ==
  IF a > 0 THEN add_argument(LabelArguments(ctx, p, a - 1), <<p, a>>)
  ELSE ctx
RECURSIVE LabelInstructions(_, _, _, _)
LabelInstructions(ctx, p, b, i) ==
  IF i > 0 THEN add_instruction(LabelInstructions(ctx, p, b, i - 1), <<p, b, i>>)
  ELSE ctx
RECURSIVE LabelBlocks(_, _, _, _)
LabelBlocks(ctx, m, p, b) ==
  IF b > 0
  THEN LabelInstructions(add_block(LabelBlocks(ctx, m, p, b - 1), <<p, b>>),
                         p, b, Len(m.funcs[p].blocks[b]))
  ELSE ctx

\* local_context with a block counter that is incremented before use
local_context_from_one(m, p) ==
  LET c == LabelArguments(LabelBlocks(EmptyCtx, m, p, Len(m.funcs[p].blocks)),
                          p, m.funcs[p].nargs) IN
  [c EXCEPT !.block_labels = [k \in DOMAIN @ |-> @[k] + 1]]

\* the context serialize_function builds for itself: blocks and their
\* instructions first, arguments last
local_context(m, p) ==
  LabelArguments(LabelBlocks(EmptyCtx, m, p, Len(m.funcs[p].blocks)),
                 p, m.funcs[p].nargs)

\* is_intrinsic_function that recognizes the debug-info intrinsics only
is_intrinsic_function_debug_only(fn) ==
  fn.iid # "none" /\ isDbgInfoIntrinsic(fn.iid)

is_intrinsic_function(fn) ==
  \/ fn.prefix
  \/ fn.iid # "none"
  \/ (fn.named /\ fn.prefix)

\* src is not a field of the emitted object: it records the function the
\* record was produced from
serialize_function_in(ctxt, ctxs, m, p) ==
  LET fn == m.funcs[p] IN
  [src |-> p,
   has_name |-> fn.named,
   name |-> IF fn.named THEN getName(p) ELSE 0,
   is_defined |-> fn.blocks # <<>>,
   is_intrinsic |-> is_intrinsic_function(fn),
   params |-> fn.nargs,
   blocks |-> [b \in 1..Len(fn.blocks) |-> serialize_block(ctxt, ctxs, m, p, b)]]

serialize_function(ctxs, m, p) ==
  serialize_function_in(local_context(m, p), ctxs, m, p)

function_fatal_in(ctxt, ctxs, m, p) ==
  FirstFatal([b \in 1..Len(m.funcs[p].blocks) |->
                block_fatal(ctxt, ctxs, m, p, b)])

function_fatal(ctxs, m, p) ==
  function_fatal_in(local_context(m, p), ctxs, m, p)

(***************************************************************************)
(* Global variable serializer.                                             *)
(***************************************************************************)
\* serialize_global_variable that stores a name whether the global has one
\* or not
serialize_global_variable_always_named(ctxs, m, g) ==
  LET gv == m.globals[g] IN
  [has_name |-> TRUE,
   name |-> getName(g),
   has_initializer |-> gv.init # NoVal,
   initializer |-> IF gv.init # NoVal THEN serialize_const(ctxs, m, gv.init)
                   ELSE JV("", "", 0, FALSE, 0, 0)]

serialize_global_variable(ctxs, m, g) ==
  LET gv == m.globals[g] IN
  [has_name |-> gv.named,
   name |-> IF gv.named THEN getName(g) ELSE 0,
   has_initializer |-> gv.init # NoVal,
   initializer |-> IF gv.init # NoVal THEN serialize_const(ctxs, m, gv.init)
                   ELSE JV("", "", 0, FALSE, 0, 0)]

global_variable_fatal(ctxs, m, g) ==
  IF m.globals[g].init # NoVal THEN const_fatal(ctxs, m, m.globals[g].init)
  ELSE NoFatal


(***************************************************************************)
(* Logger.                                                                 *)
(***************************************************************************)
Debug == 0
Info == 1
Warning == 2
Error == 3
Fatal == 4
NullLogger == [live |-> FALSE, target_level |-> Info, no_timestamp |-> FALSE]

\* a record that also drops the messages at the target level
record_above_target(lg, out, level, msg) ==
  IF level <= lg.target_level THEN out
  ELSE Append(out, [level |-> level, msg |-> msg])

\* Logger::record: the messages below the target level are dropped
record(lg, out, level, msg) ==
  IF level < lg.target_level THEN out
  ELSE Append(out, [level |-> level, msg |-> msg])

(***************************************************************************)
(* The state of the process.                                               *)
(***************************************************************************)
VARIABLES
  module,      \* the IR module handed to the pass
  OptVerbose,  \* -libra-verbose
  fs,          \* the file at the path OptOutput
  LOG,         \* the global logger
  log,         \* what the logger has written to stderr
  contexts,    \* the registry: function -> FunctionSerializationContext
  pc,          \* the statement of LibraPass::run in execution
  fi,          \* the cursor of the loop over module.functions()
  result,      \* the object serialize_module is assembling
  data,        \* the object serialize_module returned
  aborted,     \* the process has been terminated
  runs,        \* invocations of the pass so far
  unit,        \* a FunctionSerializationContext exercised on its own
  added,       \* the entities handed to unit's add_* operations so far
  layouts,     \* the memory layouts of two processes given the same module
  outcomes,    \* what the pass produced in each of the two processes
  arg,         \* the IR entity handed to a serializer called on its own
  ret,         \* what that call produced
  temps        \* the detached instructions that are allocated

vars == <<module, OptVerbose, fs, LOG, log, contexts, pc, fi, result, data,
          aborted, runs, unit, added, layouts, outcomes, arg, ret, temps>>
passVars == <<module, OptVerbose, fs, LOG, log, contexts, pc, fi, result,
              data, aborted, runs>>
unitVars == <<unit, added>>
sideVars == <<layouts, outcomes, arg, ret, temps>>

NoneAdded == [blocks |-> {}, insts |-> {}, args |-> {}]

NoDoc ==
  [name |-> "", asm |-> "", structs |-> <<>>, global_variables |-> <<>>,
   functions |-> <<>>]
\* no serializer has been called on its own
NoArg == [sort |-> "none"]
NotCalled == [fatal |-> "not called"]
\* the pass has not run yet in that process
Pending == [fatal |-> "pending", doc |-> NoDoc]
File(exists, kind, doc) == [exists |-> exists, kind |-> kind, doc |-> doc]
NoFile == File(FALSE, "none", NoDoc)
OldFile == File(TRUE, "old", NoDoc)

\* the statements of LibraPass::run, in order
RunOrderNoPrepare ==
  <<"init_logger", "materialize", "serialize_module", "open", "write",
    "destroy_logger">>
RunOrderOpenFirst ==
  <<"init_logger", "materialize", "prepare", "open", "serialize_module",
    "write", "destroy_logger">>
RunOrder ==
  <<"init_logger", "materialize", "prepare", "serialize_module", "open",
    "write", "destroy_logger">>

NextPhase(ph) ==
  LET k == CHOOSE j \in 1..Len(RunOrder) : RunOrder[j] = ph IN
  IF k = Len(RunOrder) THEN "returned" ELSE RunOrder[k + 1]

Init ==
  /\ module \in Modules
  /\ OptVerbose \in BOOLEAN
  /\ fs \in {NoFile, OldFile}
  /\ LOG = NullLogger
  /\ log = <<>>
  /\ contexts = EmptyMap
  /\ pc = RunOrder[1]
  /\ fi = 0
  /\ result = NoDoc
  /\ data = NoDoc
  /\ aborted = FALSE
  /\ runs = 1
  /\ unit = EmptyCtx
  /\ added = NoneAdded
  /\ layouts = <<"ascending", "ascending">>
  /\ outcomes = <<Pending, Pending>>
  /\ arg = NoArg
  /\ ret = NotCalled
  /\ temps = {}

\* LOG->fatal(msg): the message is recorded, then llvm_unreachable ends the
\* process; an escaping std::out_of_range ends it without a message
Die(reason, out) ==
  /\ aborted' = TRUE
  /\ log' = IF reason = ExcOutOfRange THEN out
            ELSE record(LOG, out, Fatal, reason)
  /\ UNCHANGED unitVars
  /\ UNCHANGED sideVars
  /\ UNCHANGED <<module, OptVerbose, fs, LOG, contexts, pc, fi, result,
                 data, runs>>

Running(ph) == ~aborted /\ pc = ph

\* init_default_logger(level, OptVerbose)
InitLogger ==
  /\ Running("init_logger")
  /\ LOG' = [live |-> TRUE,
             target_level |-> IF OptVerbose THEN Debug ELSE Info,
             no_timestamp |-> OptVerbose]
  /\ pc' = NextPhase(pc)
  /\ fi' = 0
  /\ UNCHANGED unitVars
  /\ UNCHANGED sideVars
  /\ UNCHANGED <<module, OptVerbose, fs, log, contexts, result, data,
                 aborted, runs>>

\* module.materializeAll() succeeds
MaterializeOk ==
  /\ Running("materialize")
  /\ pc' = NextPhase(pc)
  /\ fi' = 0
  /\ UNCHANGED unitVars
  /\ UNCHANGED sideVars
  /\ UNCHANGED <<module, OptVerbose, fs, LOG, log, contexts, result, data,
                 aborted, runs>>

\* module.materializeAll() returns an error
MaterializeFail ==
  /\ Running("materialize")
  /\ Die(MsgMaterialize, log)

\* prepare_context walking the instructions of the function from the last
\* to the first
prepare_context_backwards(m, p) ==
  LET c == LabelBlocks(LabelArguments(EmptyCtx, p, m.funcs[p].nargs),
                       m, p, Len(m.funcs[p].blocks))
      n == Cardinality(DOMAIN c.inst_labels) IN
  [c EXCEPT !.inst_labels = [k \in DOMAIN @ |-> n - 1 - @[k]]]

\* the context prepare_for_serialization builds for function p: arguments
\* first, then every block followed by its instructions
prepare_context(m, p) ==
  LabelBlocks(LabelArguments(EmptyCtx, p, m.funcs[p].nargs),
              m, p, Len(m.funcs[p].blocks))

\* one iteration of the loop of prepare_for_serialization
PrepareFunction ==
  /\ Running("prepare")
  /\ fi < NumFuncs(module)
  /\ fi' = fi + 1
  /\ contexts' = IF is_debug_function(module.funcs[fi + 1]) THEN contexts
                 ELSE emplace(contexts, fi + 1,
                              prepare_context(module, fi + 1))
  /\ UNCHANGED unitVars
  /\ UNCHANGED sideVars
  /\ UNCHANGED <<module, OptVerbose, fs, LOG, log, pc, result, data,
                 aborted, runs>>

\* prepare_for_serialization returns
PrepareReturn ==
  /\ Running("prepare")
  /\ fi = NumFuncs(module)
  /\ pc' = NextPhase(pc)
  /\ fi' = 0
  /\ UNCHANGED unitVars
  /\ UNCHANGED sideVars
  /\ UNCHANGED <<module, OptVerbose, fs, LOG, log, contexts, result, data,
                 aborted, runs>>


MsgUnnamedGlobal == "unnamed global variable"
MsgUnnamedFunction == "unnamed function"

\* the log after LOG->error has been called once for each unnamed global
\* among the first n
RECURSIVE LogGlobals(_, _, _, _)
LogGlobals(lg, out, m, n) ==
  IF n = 0 THEN out
  ELSE LET before == LogGlobals(lg, out, m, n - 1) IN
       IF m.globals[n].named THEN before
       ELSE record(lg, before, Error, MsgUnnamedGlobal)

\* serialize_module up to the loop over the functions: name, asm, structs
\* and globals
SerializeModuleHead ==
  /\ Running("serialize_module")
  /\ LET n == Len(module.globals)
         reasons == [g \in 1..n |->
                       global_variable_fatal(contexts, module, g)]
         bad == FirstFatal(reasons)
         stop == IF bad = NoFatal THEN n
                 ELSE CHOOSE g \in 1..n :
                        /\ reasons[g] # NoFatal
                        /\ \A j \in 1..(g - 1) : reasons[j] = NoFatal
     IN IF bad # NoFatal
        THEN Die(bad, LogGlobals(LOG, log, module, stop))
        ELSE /\ result' =
                  [name |-> module.name,
                   asm |-> module.asm,
                   structs |-> module.structs,
                   global_variables |->
                     [g \in 1..n |->
                        serialize_global_variable(contexts, module, g)],
                   functions |-> <<>>]
             /\ log' = LogGlobals(LOG, log, module, n)
             /\ pc' = "serialize_functions"
             /\ fi' = 0
             /\ UNCHANGED unitVars
             /\ UNCHANGED sideVars
             /\ UNCHANGED <<module, OptVerbose, fs, LOG, contexts, data,
                            aborted, runs>>

\* what the call serialize_function(func) leaves in the registry
registry_after_function_erased(ctxs, p) ==
  [q \in (DOMAIN ctxs) \ {p} |-> ctxs[q]]
registry_after_function(ctxs, p) == ctxs

\* one iteration of the loop over the functions in serialize_module
SerializeFunction ==
  /\ Running("serialize_functions")
  /\ fi < NumFuncs(module)
  /\ LET p == fi + 1
         fn == module.funcs[p]
         out == IF fn.named THEN log
                ELSE record(LOG, log, Error, MsgUnnamedFunction)
     IN IF is_debug_function(fn)
        THEN /\ fi' = p
             /\ UNCHANGED unitVars
             /\ UNCHANGED sideVars
             /\ UNCHANGED <<module, OptVerbose, fs, LOG, log, contexts, pc,
                            result, data, aborted, runs>>
        ELSE IF function_fatal(contexts, module, p) # NoFatal
        THEN Die(function_fatal(contexts, module, p), out)
        ELSE /\ fi' = p
             /\ result' =
                  [result EXCEPT !.functions =
                     Append(@, serialize_function(contexts, module, p))]
             /\ contexts' = registry_after_function(contexts, p)
             /\ log' = out
             /\ UNCHANGED unitVars
             /\ UNCHANGED sideVars
             /\ UNCHANGED <<module, OptVerbose, fs, LOG, pc, data, aborted,
                            runs>>

\* serialize_module returning an object that holds the functions only
SerializeModuleReturnFunctionsOnly ==
  /\ Running("serialize_functions")
  /\ fi = NumFuncs(module)
  /\ data' = [functions |-> result.functions]
  /\ pc' = NextPhase("serialize_module")
  /\ UNCHANGED unitVars
  /\ UNCHANGED sideVars
  /\ UNCHANGED <<module, OptVerbose, fs, LOG, log, contexts, fi, result,
                 aborted, runs>>

\* serialize_module returns the assembled object
SerializeModuleReturn ==
  /\ Running("serialize_functions")
  /\ fi = NumFuncs(module)
  /\ data' = result
  /\ pc' = NextPhase("serialize_module")
  /\ UNCHANGED unitVars
  /\ UNCHANGED sideVars
  /\ UNCHANGED <<module, OptVerbose, fs, LOG, log, contexts, fi, result,
                 aborted, runs>>

\* raw_fd_ostream(OptOutput, ec, CD_CreateNew): fails when the file exists,
\* creates an empty file otherwise
open_create_always(file) ==
  [ec |-> FALSE, file |-> File(TRUE, "empty", NoDoc)]
open_create_new(file) ==
  IF file.exists THEN [ec |-> TRUE, file |-> file]
  ELSE [ec |-> FALSE, file |-> File(TRUE, "empty", NoDoc)]

OpenOutput ==
  /\ Running("open")
  /\ LET r == open_create_new(fs) IN
     IF r.ec
     THEN /\ fs' = r.file
          /\ aborted' = TRUE
          /\ log' = record(LOG, log, Fatal, MsgCreate)
          /\ UNCHANGED unitVars
          /\ UNCHANGED sideVars
          /\ UNCHANGED <<module, OptVerbose, LOG, contexts, pc, fi, result,
                         data, runs>>
     ELSE /\ fs' = r.file
          /\ pc' = NextPhase(pc)
          /\ UNCHANGED unitVars
          /\ UNCHANGED sideVars
          /\ UNCHANGED <<module, OptVerbose, LOG, log, contexts, fi, result,
                         data, aborted, runs>>

\* stm << formatv("{0:2}", data); stm.close()
WriteOutput ==
  /\ Running("write")
  /\ fs' = File(TRUE, "json", data)
  /\ pc' = NextPhase(pc)
  /\ UNCHANGED unitVars
  /\ UNCHANGED sideVars
  /\ UNCHANGED <<module, OptVerbose, LOG, log, contexts, fi, result, data,
                 aborted, runs>>

\* destroy_default_logger(); return PreservedAnalyses::none()
DestroyLogger ==
  /\ Running("destroy_logger")
  /\ LOG' = NullLogger
  /\ pc' = NextPhase(pc)
  /\ UNCHANGED unitVars
  /\ UNCHANGED sideVars
  /\ UNCHANGED <<module, OptVerbose, fs, log, contexts, fi, result, data,
                 aborted, runs>>

\* the host pipeline invokes the pass once more on the module; the locals
\* of run are fresh, the globals (LOG, contexts) are what the last run left
RunAgain ==
  /\ ~aborted
  /\ pc = "returned"
  /\ runs < MaxRuns
  /\ runs' = runs + 1
  /\ pc' = RunOrder[1]
  /\ fi' = 0
  /\ result' = NoDoc
  /\ data' = NoDoc
  /\ UNCHANGED unitVars
  /\ UNCHANGED sideVars
  /\ UNCHANGED <<module, OptVerbose, fs, LOG, log, contexts, aborted>>

Next ==
  \/ InitLogger
  \/ MaterializeOk
  \/ MaterializeFail
  \/ PrepareFunction
  \/ PrepareReturn
  \/ SerializeModuleHead
  \/ SerializeFunction
  \/ SerializeModuleReturn
  \/ OpenOutput
  \/ WriteOutput
  \/ DestroyLogger
  \/ RunAgain

Spec == Init /\ [][Next]_vars

(***************************************************************************)
(* The prepare phase that also creates the dummy entities: after the loop  *)
(* over the functions it creates dummy_function (unnamed, internal, void   *)
(* ()) in the module, dummy_block in it, and dummy_instruction, an         *)
(* unreachable, in that block.                                             *)
(***************************************************************************)
dummy_function == Fn(FALSE, FALSE, "none", 0, << <<IUnreachable>> >>)

\* Function::Create(..., "", &module) appends to the module's function list
create_dummies(m) == [m EXCEPT !.funcs = Append(@, dummy_function)]

\* prepare_for_serialization returns, having created the dummy entities
PrepareReturnDummies ==
  /\ Running("prepare")
  /\ fi = NumFuncs(module)
  /\ module' = create_dummies(module)
  /\ pc' = NextPhase(pc)
  /\ fi' = 0
  /\ UNCHANGED unitVars
  /\ UNCHANGED sideVars
  /\ UNCHANGED <<OptVerbose, fs, LOG, log, contexts, result, data,
                 aborted, runs>>

NextDummies ==
  \/ InitLogger
  \/ MaterializeOk
  \/ MaterializeFail
  \/ PrepareFunction
  \/ PrepareReturnDummies
  \/ SerializeModuleHead
  \/ SerializeFunction
  \/ SerializeModuleReturn
  \/ OpenOutput
  \/ WriteOutput
  \/ DestroyLogger
  \/ RunAgain

SpecDummies == Init /\ [][NextDummies]_vars

TypeOK ==
  /\ module \in Modules
  /\ pc \in {"init_logger", "materialize", "prepare", "serialize_module",
             "serialize_functions", "open", "write", "destroy_logger",
             "returned"}
  /\ fi \in 0..NumFuncs(module)
  /\ runs \in 1..MaxRuns


(***************************************************************************)
(* The labelling context on its own: any interleaving of add_block,        *)
(* add_instruction and add_argument on entities not added before.          *)
(***************************************************************************)
Entities == 1..NumEntities

InitUnit ==
  /\ module = Mod(<<>>, <<>>)
  /\ OptVerbose = FALSE
  /\ fs = NoFile
  /\ LOG = NullLogger
  /\ log = <<>>
  /\ contexts = EmptyMap
  /\ pc = RunOrder[1]
  /\ fi = 0
  /\ result = NoDoc
  /\ data = NoDoc
  /\ aborted = FALSE
  /\ runs = 1
  /\ unit = EmptyCtx
  /\ added = NoneAdded
  /\ layouts = <<"ascending", "ascending">>
  /\ outcomes = <<Pending, Pending>>
  /\ arg = NoArg
  /\ ret = NotCalled
  /\ temps = {}

AddBlock ==
  \E e \in Entities \ added.blocks :
    /\ unit' = add_block(unit, e)
    /\ added' = [added EXCEPT !.blocks = @ \cup {e}]
    /\ UNCHANGED passVars
    /\ UNCHANGED sideVars

AddInstruction ==
  \E e \in Entities \ added.insts :
    /\ unit' = add_instruction(unit, e)
    /\ added' = [added EXCEPT !.insts = @ \cup {e}]
    /\ UNCHANGED passVars
    /\ UNCHANGED sideVars

AddArgument ==
  \E e \in Entities \ added.args :
    /\ unit' = add_argument(unit, e)
    /\ added' = [added EXCEPT !.args = @ \cup {e}]
    /\ UNCHANGED passVars
    /\ UNCHANGED sideVars

NextUnit ==
  \/ AddBlock
  \/ AddInstruction
  \/ AddArgument

SpecUnit == InitUnit /\ [][NextUnit]_vars

(***************************************************************************)
(* A context called as its interface allows: any add_* and get_* with any  *)
(* entity, added before or not, under a live logger.                       *)
(***************************************************************************)
NumKeys == 2
Keys == 1..NumKeys

\* the logger init_default_logger has installed by the time a context is
\* in use
ContextLogger == [live |-> TRUE, target_level |-> Info, no_timestamp |-> FALSE]

\* assert(res.second) has failed: abort() after a message on stderr
AssertionFailed == "Assertion `res.second' failed"
\* the assertions are compiled in, or compiled out by NDEBUG
Builds == {"assert", "NDEBUG"}
\* what the caller of a context operation observes: the failure that ended
\* the process, or the label returned
Outcome(reason, label) == [fatal |-> reason, label |-> label]

InitContext ==
  /\ module = Mod(<<>>, <<>>)
  /\ OptVerbose = FALSE
  /\ fs = NoFile
  /\ LOG = ContextLogger
  /\ log = <<>>
  /\ contexts = EmptyMap
  /\ pc = RunOrder[1]
  /\ fi = 0
  /\ result = NoDoc
  /\ data = NoDoc
  /\ aborted = FALSE
  /\ runs = 1
  /\ unit = EmptyCtx
  /\ added = NoneAdded
  /\ layouts = <<"ascending", "ascending">>
  /\ outcomes = <<Pending, Pending>>
  /\ arg = NoArg
  /\ ret = NotCalled
  /\ temps = {}

\* add_block(block) for any block, added before or not
CallAddBlock ==
  /\ ~aborted
  /\ \E e \in Keys, build \in Builds :
       LET failed == e \in DOMAIN unit.block_labels /\ build = "assert" IN
       /\ unit' = add_block(unit, e)
       /\ added' = [added EXCEPT !.blocks = @ \cup {e}]
       /\ aborted' = failed
       /\ ret' = IF failed THEN Outcome(AssertionFailed, NoLabel) ELSE ret
  /\ UNCHANGED <<module, OptVerbose, fs, LOG, log, contexts, pc, fi, result,
                 data, runs>>
  /\ UNCHANGED <<layouts, outcomes, arg, temps>>

CallAddInstruction ==
  /\ ~aborted
  /\ \E e \in Keys, build \in Builds :
       LET failed == e \in DOMAIN unit.inst_labels /\ build = "assert" IN
       /\ unit' = add_instruction(unit, e)
       /\ added' = [added EXCEPT !.insts = @ \cup {e}]
       /\ aborted' = failed
       /\ ret' = IF failed THEN Outcome(AssertionFailed, NoLabel) ELSE ret
  /\ UNCHANGED <<module, OptVerbose, fs, LOG, log, contexts, pc, fi, result,
                 data, runs>>
  /\ UNCHANGED <<layouts, outcomes, arg, temps>>

CallAddArgument ==
  /\ ~aborted
  /\ \E e \in Keys, build \in Builds :
       LET failed == e \in DOMAIN unit.arg_labels /\ build = "assert" IN
       /\ unit' = add_argument(unit, e)
       /\ added' = [added EXCEPT !.args = @ \cup {e}]
       /\ aborted' = failed
       /\ ret' = IF failed THEN Outcome(AssertionFailed, NoLabel) ELSE ret
  /\ UNCHANGED <<module, OptVerbose, fs, LOG, log, contexts, pc, fi, result,
                 data, runs>>
  /\ UNCHANGED <<layouts, outcomes, arg, temps>>

\* the caller of a lookup gets the label, or std::map::at throws and the
\* exception, caught nowhere, ends the process; the logger is not involved
Lookup(label) ==
  /\ ret' = IF label = NoLabel THEN Outcome(ExcOutOfRange, NoLabel)
            ELSE Outcome(NoFatal, label)
  /\ aborted' = (label = NoLabel)
  /\ UNCHANGED <<module, OptVerbose, fs, LOG, log, contexts, pc, fi, result,
                 data, runs>>
  /\ UNCHANGED unitVars
  /\ UNCHANGED <<layouts, outcomes, arg, temps>>

\* get_block(block) for any block
CallGetBlock ==
  /\ ~aborted
  /\ \E e \in Keys : Lookup(get_block(unit, e))

CallGetInstruction ==
  /\ ~aborted
  /\ \E e \in Keys : Lookup(get_instruction(unit, e))

CallGetArgument ==
  /\ ~aborted
  /\ \E e \in Keys : Lookup(get_argument(unit, e))

NextContext ==
  \/ CallAddBlock
  \/ CallAddInstruction
  \/ CallAddArgument
  \/ CallGetBlock
  \/ CallGetInstruction
  \/ CallGetArgument

SpecContext == InitContext /\ [][NextContext]_vars


(***************************************************************************)
(* The label maps and the registry as the std::map they are: keyed by the  *)
(* address of the entity, entries kept in ascending key order.  A layout   *)
(* is where a process has placed the entities of the module in memory.     *)
(***************************************************************************)
Layouts == {"ascending", "descending", "scattered"}

\* a number that identifies the entity at position key (a tuple of at most
\* three positions below 10)
PositionCode(key) ==
  CASE Len(key) = 1 -> key[1]
    [] Len(key) = 2 -> key[1] * 10 + key[2]
    [] Len(key) = 3 -> key[1] * 100 + key[2] * 10 + key[3]

\* the address of the entity under layout L; injective on the positions
address_of(L, key) ==
  CASE L = "ascending" -> PositionCode(key)
    [] L = "descending" -> 1000 - PositionCode(key)
    [] L = "scattered" -> (PositionCode(key) * 37) % 1009

std_map_has(am, key) == \E k \in 1..Len(am) : am[k].key = key

\* std::map::at
std_map_at(am, key) ==
  IF std_map_has(am, key)
  THEN am[CHOOSE k \in 1..Len(am) : am[k].key = key].val
  ELSE NoLabel

\* std::map::emplace: no effect when the key is present, else the entry is
\* placed where the key order puts it
std_map_emplace(am, key, val) ==
  IF std_map_has(am, key) THEN am
  ELSE LET n == Cardinality({ k \in 1..Len(am) : am[k].key < key }) IN
       SubSeq(am, 1, n) \o << [key |-> key, val |-> val] >>
         \o SubSeq(am, n + 1, Len(am))

\* the label taken from the place of the new entry in key order
std_map_add_by_rank(am, key) ==
  std_map_emplace(am, key, Cardinality({ k \in 1..Len(am) : am[k].key < key }))

\* add_block / add_instruction / add_argument on one label map: the label
\* is the size of the map before the insertion
std_map_add(am, key) ==
  std_map_emplace(am, key, Len(am))

RECURSIVE LayoutArguments(_, _, _, _)
LayoutArguments(L, am, p, a) ==
  IF a > 0
  THEN std_map_add(LayoutArguments(L, am, p, a - 1), address_of(L, <<p, a>>))
  ELSE am

\* the block map after the blocks 1..b have been added
RECURSIVE LayoutBlocks(_, _, _, _)
LayoutBlocks(L, am, p, b) ==
  IF b > 0
  THEN std_map_add(LayoutBlocks(L, am, p, b - 1), address_of(L, <<p, b>>))
  ELSE am

\* the instruction map after the instructions 1..i of block b and all the
\* instructions of the blocks before b have been added
RECURSIVE LayoutInstructions(_, _, _, _, _, _)
LayoutInstructions(L, am, m, p, b, i) ==
  IF b = 0 THEN am
  ELSE IF i = 0
  THEN LayoutInstructions(L, am, m, p, b - 1,
                          IF b > 1 THEN Len(m.funcs[p].blocks[b - 1]) ELSE 0)
  ELSE std_map_add(LayoutInstructions(L, am, m, p, b, i - 1),
                   address_of(L, <<p, b, i>>))

\* the three maps a labelling of function p leaves (the maps do not feed one
\* another, so the order of the loops over arguments and blocks is immaterial
\* to each)
layout_maps(L, m, p) ==
  LET nb == Len(m.funcs[p].blocks) IN
  [block_labels |-> LayoutBlocks(L, <<>>, p, nb),
   inst_labels |->
     LayoutInstructions(L, <<>>, m, p, nb,
                        IF nb > 0 THEN Len(m.funcs[p].blocks[nb]) ELSE 0),
   arg_labels |-> LayoutArguments(L, <<>>, p, m.funcs[p].nargs)]

\* what get_block / get_instruction / get_argument answer for the entities
\* of function p: each entity is looked up by its address
layout_lookup(L, maps, m, p) ==
  LET blocks == { <<p, b>> : b \in 1..Len(m.funcs[p].blocks) }
      insts == { <<p, bi[1], bi[2]>> :
                   bi \in UNION { { <<b, i>> : i \in 1..Len(m.funcs[p].blocks[b]) } :
                                  b \in 1..Len(m.funcs[p].blocks) } }
      args == { <<p, a>> : a \in 1..m.funcs[p].nargs } IN
  [block_labels |->
     [e \in { x \in blocks : std_map_has(maps.block_labels, address_of(L, x)) }
        |-> std_map_at(maps.block_labels, address_of(L, e))],
   inst_labels |->
     [e \in { x \in insts : std_map_has(maps.inst_labels, address_of(L, x)) }
        |-> std_map_at(maps.inst_labels, address_of(L, e))],
   arg_labels |->
     [e \in { x \in args : std_map_has(maps.arg_labels, address_of(L, x)) }
        |-> std_map_at(maps.arg_labels, address_of(L, e))]]

\* the registry prepare_for_serialization leaves: one entry per non-debug
\* function, emplaced in module order, kept in address order
RECURSIVE layout_registry(_, _, _)
layout_registry(L, m, n) ==
  IF n = 0 THEN <<>>
  ELSE IF is_debug_function(m.funcs[n]) THEN layout_registry(L, m, n - 1)
  ELSE std_map_emplace(layout_registry(L, m, n - 1), address_of(L, <<n>>),
                       layout_maps(L, m, n))

\* contexts.find(func) for every function of the module
layout_contexts(L, m) ==
  LET reg == layout_registry(L, m, NumFuncs(m)) IN
  [p \in { q \in 1..NumFuncs(m) : std_map_has(reg, address_of(L, <<q>>)) } |->
     layout_lookup(L, std_map_at(reg, address_of(L, <<p>>)), m, p)]

\* the non-debug functions among the first n, in module order
RECURSIVE FunctionsToEmit(_, _)
FunctionsToEmit(m, n) ==
  IF n = 0 THEN <<>>
  ELSE IF is_debug_function(m.funcs[n]) THEN FunctionsToEmit(m, n - 1)
  ELSE Append(FunctionsToEmit(m, n - 1), n)

\* prepare_for_serialization followed by serialize_module in a process
\* whose memory layout is L: the fatal outcome, or the document
layout_outcome(L, m) ==
  LET ctxs == layout_contexts(L, m)
      todo == FunctionsToEmit(m, NumFuncs(m))
      local(p) == layout_lookup(L, layout_maps(L, m, p), m, p)
      bad == FirstFatal(
               [g \in 1..Len(m.globals) |-> global_variable_fatal(ctxs, m, g)]
               \o [k \in 1..Len(todo) |->
                     function_fatal_in(local(todo[k]), ctxs, m, todo[k])])
  IN IF bad # NoFatal THEN [fatal |-> bad, doc |-> NoDoc]
     ELSE [fatal |-> NoFatal,
           doc |-> [name |-> m.name,
                    asm |-> m.asm,
                    structs |-> m.structs,
                    global_variables |->
                      [g \in 1..Len(m.globals) |->
                         serialize_global_variable(ctxs, m, g)],
                    functions |->
                      [k \in 1..Len(todo) |->
                         serialize_function_in(local(todo[k]), ctxs, m,
                                               todo[k])]]]

InitLayout ==
  /\ module \in Modules
  /\ OptVerbose = FALSE
  /\ fs = NoFile
  /\ LOG = NullLogger
  /\ log = <<>>
  /\ contexts = EmptyMap
  /\ pc = RunOrder[1]
  /\ fi = 0
  /\ result = NoDoc
  /\ data = NoDoc
  /\ aborted = FALSE
  /\ runs = 1
  /\ unit = EmptyCtx
  /\ added = NoneAdded
  /\ layouts \in Layouts \X Layouts
  /\ outcomes = <<Pending, Pending>>
  /\ arg = NoArg
  /\ ret = NotCalled
  /\ temps = {}

\* one of the two processes runs the pass on the module
SerializeUnderLayout ==
  \E k \in 1..2 :
    /\ outcomes[k] = Pending
    /\ outcomes' = [outcomes EXCEPT ![k] = layout_outcome(layouts[k], module)]
    /\ UNCHANGED <<layouts, arg, ret, temps>>
    /\ UNCHANGED passVars
    /\ UNCHANGED unitVars

NextLayout ==
  \/ SerializeUnderLayout

SpecLayout == InitLayout /\ [][NextLayout]_vars


(***************************************************************************)
(* The serializers as functions of one IR entity: a type, an instruction   *)
(* or a constant is drawn and the serializer is called on it once.         *)
(***************************************************************************)
\* the types without contained types
LeafTypes ==
  { Ty(id, <<>>, 0) :
      id \in (TypeIDs \cup {OtherTyID})
               \ {"ArrayTyID", "FunctionTyID", "FixedVectorTyID",
                  "ScalableVectorTyID", "TypedPointerTyID"} }
    \cup { Ty("IntegerTyID", <<>>, w) : w \in {1, 32} }
    \cup { Ty("PointerTyID", <<>>, 1) }
\* the types built from one or two leaf types
Types ==
  LeafTypes
    \cup { Ty(id, <<t>>, 2) :
             id \in {"ArrayTyID", "StructTyID", "FixedVectorTyID",
                     "ScalableVectorTyID", "TargetExtTyID", "TypedPointerTyID"},
             t \in LeafTypes }
    \cup { Ty("FunctionTyID", <<r, t>>, v) :
             r \in { Ty("VoidTyID", <<>>, 0), Ty("IntegerTyID", <<>>, 32) },
             t \in LeafTypes, v \in {0, 1} }

TypeArg(t) == [sort |-> "type", val |-> t]

\* the module the instructions and constants drawn belong to: an intrinsic
\* declaration and a function of two arguments, and one global
CaseModule == Mod(<<Shape(2, 1), Shape(3, 2)>>, << Gv(TRUE, VInt(7)) >>)
\* the function whose context serializes the instruction drawn
CaseFunction == 2

\* one instruction of every kind; a call or invoke for every kind of callee
Instructions ==
  { Inst(kind, NoVal, <<VArg(1)>>, <<>>) :
      kind \in (DOMAIN InstClass) \ {"call", "invoke", "br", "switch", "phi"} }
    \cup { Inst("call", callee, <<VInt(1)>>, <<>>) :
             callee \in {VFunc(1), VFunc(2), VAsm, VArg(1)} }
    \cup { Inst("invoke", callee, <<VInt(1)>>, <<>>) :
             callee \in {VFunc(1), VFunc(2), VAsm, VArg(1)} }
    \cup { IBr(1), ISwitch(VArg(1), 1, <<Pair(VInt(3), 1)>>),
           IPhi(<<Pair(VArg(2), 1)>>) }

InstArg(inst) == [sort |-> "inst", val |-> inst]

\* the registry prepare_for_serialization leaves for CaseModule
CaseContexts ==
  [q \in {q \in 1..NumFuncs(CaseModule) :
            ~is_debug_function(CaseModule.funcs[q])} |->
     prepare_context(CaseModule, q)]

\* the global values a constant can refer to
GlobalValues ==
  {VGlobalVar(1), VFunc(1), VFunc(2), VAlias(TRUE), VAlias(FALSE),
   VIFunc(TRUE)}

\* one constant of every class
Constants ==
  GlobalValues
    \cup { VMarker(class, gv) : class \in {"DSOLocalEquivalent", "NoCFIValue"},
                                gv \in GlobalValues }
    \cup { VConst(class) :
             class \in {"ConstantFP", "ConstantPointerNull",
                        "ConstantTokenNone", "ConstantTargetNone",
                        "UndefValue", "ConstantAggregateZero",
                        "OtherConstantData", "OtherConstantAggregate",
                        "OtherGlobalValue", "OtherConstant"} }
    \cup { VSeq(class, <<VInt(1), VInt(2)>>) :
             class \in {"ConstantDataVector", "ConstantDataArray",
                        "ConstantVector", "ConstantArray"} }
    \cup { VSeq(class, <<VInt(1), VFunc(2)>>) :
             class \in {"ConstantArray", "ConstantStruct"} }
    \cup { VInt(0), VInt(7), VBlockAddr(2, 1),
           VExpr(Inst("cast", NoVal, <<VFunc(2)>>, <<>>)),
           VExpr(Inst("gep", NoVal, <<VGlobalVar(1), VInt(0)>>, <<>>)) }

ConstArg(v) == [sort |-> "const", val |-> v]

\* Logger::Level
Levels == {Debug, Info, Warning, Error, Fatal}
\* a message of level level, logged in a run with OptVerbose = verbose
LogArg(verbose, level) == [sort |-> "log", verbose |-> verbose, level |-> level]
MsgProbe == "message"
Returned(reason, obj) == [fatal |-> reason, obj |-> obj]

InitCase ==
  /\ module = CaseModule
  /\ OptVerbose = FALSE
  /\ fs = NoFile
  /\ LOG = NullLogger
  /\ log = <<>>
  /\ contexts = CaseContexts
  /\ pc = RunOrder[1]
  /\ fi = 0
  /\ result = NoDoc
  /\ data = NoDoc
  /\ aborted = FALSE
  /\ runs = 1
  /\ unit = EmptyCtx
  /\ added = NoneAdded
  /\ layouts = <<"ascending", "ascending">>
  /\ outcomes = <<Pending, Pending>>
  /\ arg \in { TypeArg(t) : t \in Types }
              \cup { InstArg(i) : i \in Instructions }
              \cup { ConstArg(v) : v \in Constants }
              \cup { LogArg(v, l) : v \in BOOLEAN, l \in Levels }
  /\ ret = NotCalled
  /\ temps = {}

\* serialize_type(type)
CallSerializeType ==
  /\ arg.sort = "type"
  /\ ret = NotCalled
  /\ ret' = Returned(type_fatal(arg.val), serialize_type(arg.val))
  /\ UNCHANGED <<layouts, outcomes, arg, temps>>
  /\ UNCHANGED passVars
  /\ UNCHANGED unitVars

\* ctxt.serialize_inst(inst), ctxt the context of the function of inst
CallSerializeInst ==
  /\ arg.sort = "inst"
  /\ ret = NotCalled
  /\ LET ctxt == local_context(module, CaseFunction)
         bad == inst_fatal(ctxt, contexts, module, CaseFunction, arg.val)
         r == serialize_inst(ctxt, contexts, module, CaseFunction, arg.val)
     IN ret' = IF bad # NoFatal THEN Returned(bad, EmptyObject)
               ELSE Returned(NoFatal, r.tag :> r)
  /\ UNCHANGED <<layouts, outcomes, arg, temps>>
  /\ UNCHANGED passVars
  /\ UNCHANGED unitVars

\* the payload stored under the variant key
const_payload(r) == IF "payload" \in DOMAIN r THEN r.payload ELSE r

\* serialize_const(val)
CallSerializeConst ==
  /\ arg.sort = "const"
  /\ ret = NotCalled
  /\ LET bad == const_fatal(contexts, module, arg.val)
         r == serialize_const(contexts, module, arg.val)
     IN ret' = IF bad # NoFatal THEN Returned(bad, EmptyObject)
               ELSE Returned(NoFatal, r.sub :> const_payload(r))
  /\ temps' = temps \cup TemporariesOf(arg.val)
  /\ UNCHANGED <<layouts, outcomes, arg>>
  /\ UNCHANGED passVars
  /\ UNCHANGED unitVars

\* the logger is set up as LibraPass::run does, then LOG->debug / info /
\* warning / error / fatal is called, by the level of the message; fatal
\* ends the process in llvm_unreachable after record
CallLogger ==
  /\ arg.sort = "log"
  /\ ret = NotCalled
  /\ LET level == IF arg.verbose THEN Debug ELSE Info
         lg == [live |-> TRUE, target_level |-> level,
                no_timestamp |-> arg.verbose]
     IN /\ LOG' = lg
        /\ log' = record(lg, log, arg.level, MsgProbe)
  /\ OptVerbose' = arg.verbose
  /\ aborted' = (arg.level = Fatal)
  /\ ret' = IF arg.level = Fatal THEN Returned(MsgProbe, EmptyObject)
            ELSE Returned(NoFatal, EmptyObject)
  /\ UNCHANGED <<module, fs, contexts, pc, fi, result, data, runs>>
  /\ UNCHANGED <<layouts, outcomes, arg, temps>>
  /\ UNCHANGED unitVars

NextCase ==
  \/ CallLogger
  \/ CallSerializeType
  \/ CallSerializeInst
  \/ CallSerializeConst

SpecCase == InitCase /\ [][NextCase]_vars

(***************************************************************************)
(* Reading an emitted function record back against the function it was     *)
(* produced from.                                                          *)
(***************************************************************************)
\* the positions of block b that serialize_block emits, body then terminator
EmittedPositions(m, p, b) == BodyPositions(m, p, b) \o <<TerminatorPos(m, p, b)>>
\* the instruction envelopes of a block record, in the same order
Envelopes(blockrec) == blockrec.body \o <<blockrec.terminator>>
RecordEnvelopes(r) ==
  UNION { { Envelopes(r.blocks[b])[k] : k \in 1..Len(Envelopes(r.blocks[b])) } :
          b \in 1..Len(r.blocks) }
\* an operand site <<b, k, j>>: operand j of the k-th envelope of block b
OperandSites(r) ==
  UNION { UNION { { <<b, k, j>> :
                      j \in 1..Len(Envelopes(r.blocks[b])[k].repr.vals) } :
                  k \in 1..Len(Envelopes(r.blocks[b])) } :
          b \in 1..Len(r.blocks) }
EmittedAt(r, s) == Envelopes(r.blocks[s[1]])[s[2]].repr.vals[s[3]]
SourceAt(m, r, s) ==
  InstValues(InstAt(m, r.src, s[1], EmittedPositions(m, r.src, s[1])[s[2]]))[s[3]]
RecordVals(r) == { EmittedAt(r, s) : s \in OperandSites(r) }
Records(doc) == { doc.functions[k] : k \in 1..Len(doc.functions) }
Initializers(doc) ==
  { doc.global_variables[g].initializer :
      g \in { h \in 1..Len(doc.global_variables) :
                doc.global_variables[h].has_initializer } }
\* every value object of a document
DocVals(doc) == Initializers(doc) \cup UNION { RecordVals(r) : r \in Records(doc) }

NonDebugFunctions(m) ==
  { p \in 1..NumFuncs(m) : ~is_debug_function(m.funcs[p]) }
Emitting == pc \in {"serialize_module", "serialize_functions"}
LogHas(msg) == \E k \in 1..Len(log) : log[k].msg = msg


\* the block addresses a function serializes: among the operands of its
\* emitted instructions
FunctionBlockAddrs(m, p) ==
  { v \in UNION { UNION { { InstValues(InstAt(m, p, b, i))[j] :
                              j \in 1..Len(InstValues(InstAt(m, p, b, i))) } :
                          i \in { EmittedPositions(m, p, b)[k] :
                                    k \in 1..Len(EmittedPositions(m, p, b)) } } :
                  b \in 1..Len(m.funcs[p].blocks) } :
      v.tag = "BlockAddr" }

(***************************************************************************)
(* C1.  The prepare phase has registered a context for every non-filtered  *)
(* function of the module before serialize_module emits anything, and so   *)
(* no run ever takes the "function context not ready" fatal path (every    *)
(* block address of a verified module targets a function with a body,      *)
(* which is not filtered), in whatever order the referring and the         *)
(* referred function appear in the module.                                 *)
(***************************************************************************)
C1_RegistryReadyBeforeEmission ==
  /\ Emitting => \A p \in NonDebugFunctions(module) : p \in DOMAIN contexts
  /\ ~LogHas(MsgNotReady)
  /\ aborted /\ Emitting /\ LogHas(MsgUnnamedTarget) =>
       \E p \in 1..NumFuncs(module) : ~module.funcs[p].named

\* a function whose block address refers to a named function later in the
\* module has been emitted
C1_Witness ==
  /\ ~aborted
  /\ pc = "serialize_functions"
  /\ \E r \in Records(result) :
       \E v \in FunctionBlockAddrs(module, r.src) :
         /\ v.a > r.src
         /\ module.funcs[v.a].named
         /\ v.a \notin { q.src : q \in Records(result) }

(***************************************************************************)
(* C2.  The output file is opened only after serialize_module has returned *)
(* the complete document: a file created by the pass exists only once the  *)
(* document is assembled, and a run that dies during materialization, the  *)
(* prepare phase or serialization leaves no file it created.               *)
(***************************************************************************)
CompleteDoc(doc) ==
  /\ doc.name = module.name
  /\ Len(doc.global_variables) = Len(module.globals)
  /\ [k \in 1..Len(doc.functions) |-> doc.functions[k].src]
       = [k \in 1..Len(doc.functions) |->
            CHOOSE p \in NonDebugFunctions(module) :
              Cardinality({ q \in NonDebugFunctions(module) : q < p }) = k - 1]
  /\ Len(doc.functions) = Cardinality(NonDebugFunctions(module))

C2_FileOpenedAfterDocument ==
  /\ fs.kind = "empty" => CompleteDoc(data) /\ pc = "write"
  /\ fs.kind = "json" => CompleteDoc(fs.doc)
  /\ (aborted /\ runs = 1
      /\ pc \in {"materialize", "prepare", "serialize_module",
                 "serialize_functions"})
       => fs \in {NoFile, OldFile}

\* a first run died while serializing, with no file at the path
C2_Witness ==
  /\ aborted
  /\ runs = 1
  /\ pc = "serialize_functions"
  /\ fi >= 1
  /\ fs = NoFile

(***************************************************************************)
(* C3.  When a file already exists at the output path by the time the pass *)
(* opens it, the open fails and the pass takes the fatal path: the file    *)
(* keeps its content, nothing is written and the run never gets past the   *)
(* open (no write, no logger destroy, no return).                          *)
(***************************************************************************)
UpToOpen ==
  {"init_logger", "materialize", "prepare", "serialize_module",
   "serialize_functions", "open"}

C3_ExistingFileIsFatal ==
  [][ (fs.exists /\ pc \in UpToOpen) =>
        /\ fs' = fs
        /\ pc' \in UpToOpen
        /\ (pc = "open" /\ ~aborted) =>
             /\ aborted'
             /\ log' = Append(log, [level |-> Fatal, msg |-> MsgCreate]) ]_vars

\* the open of a first run failed on a file that was there before
C3_Witness ==
  /\ aborted
  /\ runs = 1
  /\ pc = "open"
  /\ fs = OldFile
  /\ LogHas(MsgCreate)


(***************************************************************************)
(* C4.  After any sequence of add_block / add_instruction / add_argument   *)
(* on pairwise distinct entities, each label map is a bijection from the   *)
(* entities added to its namespace onto 0 .. n-1, and a step that changes  *)
(* one map leaves the other two (and so their next labels) as they were.   *)
(***************************************************************************)
BijectionOnto(map, keys) ==
  /\ DOMAIN map = keys
  /\ { map[k] : k \in DOMAIN map } = 0..(Cardinality(keys) - 1)
  /\ \A j, k \in DOMAIN map : map[j] = map[k] => j = k

C4_DenseIndependentLabels ==
  /\ [](/\ BijectionOnto(unit.block_labels, added.blocks)
        /\ BijectionOnto(unit.inst_labels, added.insts)
        /\ BijectionOnto(unit.arg_labels, added.args))
  /\ [][/\ unit'.block_labels # unit.block_labels =>
             /\ unit'.inst_labels = unit.inst_labels
             /\ unit'.arg_labels = unit.arg_labels
        /\ unit'.inst_labels # unit.inst_labels =>
             /\ unit'.block_labels = unit.block_labels
             /\ unit'.arg_labels = unit.arg_labels
        /\ unit'.arg_labels # unit.arg_labels =>
             /\ unit'.block_labels = unit.block_labels
             /\ unit'.inst_labels = unit.inst_labels]_vars

\* the three namespaces hold different numbers of entities, two at least
C4_Witness ==
  /\ Cardinality(added.blocks) = 2
  /\ Cardinality(added.insts) = 3
  /\ Cardinality(added.args) = 2
  /\ unit.arg_labels[1] = 1

(***************************************************************************)
(* C5.  Debug-info-intrinsic instructions are never labelled: no key of    *)
(* the instruction map of a registry context is a debug-info instruction,  *)
(* and the indices of the instructions emitted for a function are exactly  *)
(* 0 .. n-1 for the n instructions emitted.                                *)
(***************************************************************************)
C5_DebugInstructionsUnlabelled ==
  /\ \A p \in DOMAIN contexts :
       \A key \in DOMAIN contexts[p].inst_labels :
         ~is_debug_instruction(module, InstAt(module, key[1], key[2], key[3]))
  /\ \A r \in Records(result) :
       { e.index : e \in RecordEnvelopes(r) }
         = 0..(Cardinality(RecordEnvelopes(r)) - 1)

(***************************************************************************)
(* C6.  A block address is emitted as {func, block} with func the name of  *)
(* the target function and block the label of the target block in the      *)
(* registry context of that function, which is the label of the record     *)
(* serialize_function emits for that block; a block address whose target   *)
(* is unnamed or has no registry context is never emitted (the run dies).  *)
(***************************************************************************)
BlockAddressEmittedAs(v, j) ==
  /\ module.funcs[v.a].named
  /\ v.a \in DOMAIN contexts
  /\ j.tag = "Constant" /\ j.sub = "Label"
  /\ j.name = getName(v.a)
  /\ j.block = contexts[v.a].block_labels[<<v.a, v.b>>]
  /\ \A t \in Records(result) :
       t.src = v.a => /\ t.has_name /\ t.name = j.name
                      /\ t.blocks[v.b].label = j.block

C6_BlockAddressMatchesBlockRecord ==
  /\ \A r \in Records(result) :
       \A s \in OperandSites(r) :
         SourceAt(module, r, s).tag = "BlockAddr" =>
           BlockAddressEmittedAs(SourceAt(module, r, s), EmittedAt(r, s))
  /\ \A g \in 1..Len(result.global_variables) :
       module.globals[g].init.tag = "BlockAddr" =>
         BlockAddressEmittedAs(module.globals[g].init,
                               result.global_variables[g].initializer)

\* a block address of one function and the record of its target block in
\* another function are both in the document
C6_Witness ==
  \E r, t \in Records(data) :
    /\ r.src # t.src
    /\ \E v \in FunctionBlockAddrs(module, r.src) : v.a = t.src

(***************************************************************************)
(* C7.  In every emitted function record, an {Instruction: {index: k}}     *)
(* reference carries the index of the one envelope the record holds for    *)
(* the referenced instruction, and an {Argument: {index: k}} reference has *)
(* k below the number of parameters: every reference resolves inside the   *)
(* record of the function being serialized.                                *)
(***************************************************************************)
\* the envelopes a record holds for the instruction at <<b, i>> of its
\* function
EnvelopesFor(m, r, b, i) ==
  { Envelopes(r.blocks[b])[k] :
      k \in { h \in 1..Len(Envelopes(r.blocks[b])) :
                EmittedPositions(m, r.src, b)[h] = i } }

C7_ReferencesResolveInFunction ==
  \A r \in Records(result) :
    \A s \in OperandSites(r) :
      LET v == SourceAt(module, r, s)
          j == EmittedAt(r, s) IN
      /\ j.tag = "Instruction" =>
           /\ v.tag = "Inst"
           /\ \E e \in EnvelopesFor(module, r, v.a, v.b) : e.index = j.index
           /\ Cardinality({ e \in RecordEnvelopes(r) : e.index = j.index }) = 1
      /\ j.tag = "Argument" => j.index \in 0..(r.params - 1)

\* a record of a function that holds a debug-info instruction, with an
\* instruction reference and an argument reference
C7_Witness ==
  \E r \in Records(result) :
    /\ \E b \in 1..Len(module.funcs[r.src].blocks) :
         \E i \in 1..Len(module.funcs[r.src].blocks[b]) :
           is_debug_instruction(module, InstAt(module, r.src, b, i))
    /\ \E j \in RecordVals(r) : j.tag = "Instruction"
    /\ \E j \in RecordVals(r) : j.tag = "Argument"


(***************************************************************************)
(* C8.  Nothing in the document refers to a debug-info-intrinsic function  *)
(* or instruction: no function record is produced from one, no Function    *)
(* constant (initializer, operand or callee) carries the name of one, and  *)
(* no instruction index of a record (of an envelope or of a reference) is  *)
(* the label of a debug-info instruction of that function.                 *)
(***************************************************************************)
InstructionPositions(m, p) ==
  UNION { { <<b, i>> : i \in 1..Len(m.funcs[p].blocks[b]) } :
          b \in 1..Len(m.funcs[p].blocks) }
\* the place of the instruction at <<b, i>> in the program order of its
\* function, counted from 0
ProgramOrder(m, p, bi) ==
  Cardinality({ cj \in InstructionPositions(m, p) :
                  cj[1] < bi[1] \/ (cj[1] = bi[1] /\ cj[2] < bi[2]) })

DebugFunctionNames(m) ==
  { getName(p) : p \in { q \in 1..NumFuncs(m) : is_debug_function(m.funcs[q]) } }

\* the instruction of function p labelled k is a debug-info intrinsic call
IndexDenotesDebug(m, p, k) ==
  \E bi \in InstructionPositions(m, p) :
    /\ ProgramOrder(m, p, bi) = k
    /\ CalledFunction(m, InstAt(m, p, bi[1], bi[2])) # 0
    /\ isDbgInfoIntrinsic(
         m.funcs[CalledFunction(m, InstAt(m, p, bi[1], bi[2]))].iid)

C8_NoDebugEntityInDocument ==
  /\ \A r \in Records(result) : ~isDbgInfoIntrinsic(module.funcs[r.src].iid)
  /\ \A j \in DocVals(result) :
       (j.tag = "Constant" /\ j.sub = "Function" /\ j.has_name)
         => j.name \notin DebugFunctionNames(module)
  /\ \A r \in Records(result) :
       /\ \A e \in RecordEnvelopes(r) :
            ~IndexDenotesDebug(module, r.src, e.index)
       /\ \A j \in RecordVals(r) :
            j.tag = "Instruction" => ~IndexDenotesDebug(module, r.src, j.index)

\* the document of a module with a debug-info function and a call of it
\* has been returned
C8_Witness ==
  /\ pc = "open"
  /\ data = result
  /\ \E r \in Records(data) :
       \E b \in 1..Len(module.funcs[r.src].blocks) :
         \E i \in 1..Len(module.funcs[r.src].blocks[b]) :
           /\ is_debug_instruction(module, InstAt(module, r.src, b, i))
           /\ is_debug_function(
                module.funcs[CalledFunction(module, InstAt(module, r.src, b, i))])

(***************************************************************************)
(* C9.  From the start of serialize_module to its return no step changes   *)
(* the registry: no context is added, removed or relabelled.               *)
(***************************************************************************)
C9_RegistryFrozenDuringEmission ==
  [][Emitting => contexts' = contexts]_vars

\* a block address has been looked up in the registry and emission goes on
C9_Witness ==
  /\ ~aborted
  /\ runs = 1
  /\ pc = "serialize_functions"
  /\ fi = NumFuncs(module)
  /\ contexts # EmptyMap
  /\ \E j \in DocVals(result) : j.tag = "Constant" /\ j.sub = "Label"
  /\ \E j \in DocVals(result) : j.tag = "Label"

(***************************************************************************)
(* C10.  When the pass returns the registry has been released: it holds no *)
(* context, and the prepare phase of a later run starts from an empty      *)
(* registry.                                                               *)
(***************************************************************************)
C10_RegistryReleasedAtReturn ==
  /\ pc = "returned" => contexts = EmptyMap
  /\ (pc = "prepare" /\ fi = 0) => contexts = EmptyMap

(***************************************************************************)
(* C11.  The pass does not mutate the IR module: no step of a run, from    *)
(* the entry of LibraPass::run to its return, changes the module, so the   *)
(* functions, blocks and instructions after prepare_for_serialization and  *)
(* serialize_module are those the pass was handed.                         *)
(***************************************************************************)
C11_ModuleNotMutated ==
  [][module' = module]_vars

(***************************************************************************)
(* C12.  Two processes that hold the same module at different addresses    *)
(* (so that their label maps and registries are ordered differently)       *)
(* produce the same outcome: the same document, or the same fatal error.   *)
(***************************************************************************)
C12_DeterministicAcrossLayouts ==
  (outcomes[1] # Pending /\ outcomes[2] # Pending) => outcomes[1] = outcomes[2]

\* both processes emitted a document with a block address and a function
\* of two blocks, under layouts that order the entities in opposite ways
C12_Witness ==
  /\ layouts = <<"ascending", "descending">>
  /\ outcomes[1].fatal = NoFatal
  /\ outcomes[2].fatal = NoFatal
  /\ \E j \in DocVals(outcomes[2].doc) : j.tag = "Constant" /\ j.sub = "Label"
  /\ \E r \in Records(outcomes[2].doc) :
       Len(r.blocks) = 2 /\ r.blocks[2].label = 1 /\ r.params = 1

(***************************************************************************)
(* C13.  The arrays of the document follow the module's iteration orders:  *)
(* functions holds, in module order, the records of the non-debug          *)
(* functions serialized so far; global_variables holds one record per      *)
(* global, in module order; the blocks of a function record are the        *)
(* function's blocks in order; the body of a block record holds            *)
(* non-terminator instructions of that block in their relative order, and  *)
(* its terminator is the block's last instruction.                         *)
(***************************************************************************)
\* the record rec was produced from global g of the module
RecordOfGlobal(rec, g) ==
  /\ rec.has_name = module.globals[g].named
  /\ rec.has_name => rec.name = getName(g)
  /\ rec.has_initializer = (module.globals[g].init # NoVal)

C13_ArraysFollowModuleOrder ==
  /\ [k \in 1..Len(result.functions) |-> result.functions[k].src]
       = SubSeq(FunctionsToEmit(module, NumFuncs(module)), 1,
                Len(result.functions))
  /\ pc \in {"open", "write", "destroy_logger", "returned"} =>
       /\ data = result
       /\ Len(data.functions) = Cardinality(NonDebugFunctions(module))
  /\ pc = "serialize_functions" =>
       /\ Len(result.global_variables) = Len(module.globals)
       /\ \A g \in 1..Len(module.globals) :
            RecordOfGlobal(result.global_variables[g], g)
  /\ \A r \in Records(result) :
       LET fn == module.funcs[r.src] IN
       /\ Len(r.blocks) = Len(fn.blocks)
       /\ \A b \in 1..Len(r.blocks) :
            LET rec == r.blocks[b]
                last == Len(fn.blocks[b]) IN
            /\ rec.label = b - 1
            /\ rec.terminator.index = ProgramOrder(module, r.src, <<b, last>>)
            /\ rec.terminator.repr.tag = InstTag(module, fn.blocks[b][last])
            /\ \A k \in 1..Len(rec.body) :
                 \E i \in 1..(last - 1) :
                   /\ rec.body[k].index = ProgramOrder(module, r.src, <<b, i>>)
                   /\ rec.body[k].repr.tag = InstTag(module, fn.blocks[b][i])
            /\ \A j, k \in 1..Len(rec.body) :
                 j < k => rec.body[j].index < rec.body[k].index

\* the complete document of a module whose first function is emitted and
\* whose second is a debug function, with two globals, and a block whose
\* body holds two instructions around a debug call
C13_Witness ==
  /\ pc = "open"
  /\ NumFuncs(module) = 2
  /\ Len(data.functions) = 1
  /\ Len(data.global_variables) = 2
  /\ \E r \in Records(data) :
       /\ Len(r.blocks) = 3
       /\ Len(r.blocks[1].body) = 2
       /\ r.blocks[1].body[2].index = 2

(***************************************************************************)
(* C14.  For every switch instruction the default-case successor appears   *)
(* in default, and its block label is not the block of any entry of cases. *)
(***************************************************************************)
C14_DefaultNotAmongCases ==
  \A r \in Records(result) :
    \A b \in 1..Len(r.blocks) :
      LET t == r.blocks[b].terminator.repr
          inst == InstAt(module, r.src, b, Len(module.funcs[r.src].blocks[b]))
      IN t.tag = "Switch" =>
           /\ t.switch.has_default
           /\ t.switch.default = inst.succs[1] - 1
           /\ \A k \in 1..Len(t.switch.cases) :
                t.switch.cases[k].block # t.switch.default

(***************************************************************************)
(* C14 as amended.  For every switch instruction the default-case          *)
(* successor appears in default, and cases holds exactly one entry per     *)
(* explicit case, in case order, with that case's value and the label of   *)
(* its successor: the default case contributes no entry, but an explicit   *)
(* case whose successor is the default block keeps its entry.              *)
(***************************************************************************)
C14_DefaultCaseNotAmongCases ==
  \A r \in Records(result) :
    \A b \in 1..Len(r.blocks) :
      LET t == r.blocks[b].terminator.repr
          inst == InstAt(module, r.src, b, Len(module.funcs[r.src].blocks[b]))
      IN t.tag = "Switch" =>
           /\ t.switch.has_default
           /\ t.switch.default = inst.succs[1] - 1
           /\ Len(t.switch.cases) = Len(inst.inc)
           /\ \A k \in 1..Len(t.switch.cases) :
                /\ t.switch.cases[k].block = inst.inc[k].block - 1
                /\ t.switch.cases[k].value.tag = "Constant"
                /\ t.switch.cases[k].value.sub = "Int"
                /\ t.switch.cases[k].value.index = inst.inc[k].value.a

\* a switch with an explicit case that goes to the default block has been
\* emitted
C14_Witness ==
  \E r \in Records(result) :
    \E b \in 1..Len(r.blocks) :
      LET t == r.blocks[b].terminator.repr IN
      /\ t.tag = "Switch"
      /\ Len(t.switch.cases) = 2
      /\ t.switch.cases[1].block = t.switch.default
      /\ t.switch.cases[2].block # t.switch.default

(***************************************************************************)
(* C15.  For every phi instruction the entries of options are ordered by   *)
(* ascending predecessor-block label.                                      *)
(***************************************************************************)
C15_PhiOptionsAscending ==
  \A r \in Records(result) :
    \A e \in RecordEnvelopes(r) :
      e.repr.tag = "Phi" =>
        \A j, k \in 1..Len(e.repr.options) :
          j < k => e.repr.options[j].block <= e.repr.options[k].block

(***************************************************************************)
(* C16.  serialize_type returns an object with exactly one variant key for *)
(* every type kind it enumerates, X86-AMX and X86-MMX giving Token; for a  *)
(* type kind outside that universe it takes the fatal path; it never       *)
(* returns an object with no key.                                          *)
(***************************************************************************)
TypeVariants ==
  {"Void", "Int", "Float", "Array", "Struct", "Function", "Pointer", "Vector",
   "Extension", "TypedPointer", "Label", "Token", "Metadata"}

InstVariants ==
  {"Alloca", "Load", "Store", "VAArg", "Intrinsic", "CallAsm", "CallDirect",
   "CallIndirect", "Unary", "Binary", "Compare", "Cast", "Freeze", "GEP",
   "Phi", "ITE", "GetValue", "SetValue", "GetElement", "SetElement",
   "ShuffleVector", "Fence", "AtomicCmpXchg", "AtomicRMW", "LandingPad",
   "CatchPad", "CleanupPad", "Return", "Branch", "Switch", "IndirectJump",
   "InvokeAsm", "InvokeDirect", "InvokeIndirect", "Resume", "Unreachable",
   "CatchSwitch", "CatchReturn", "CleanupReturn", "CallBranch"}

C17_InstCaseAnalysisTotal ==
  (arg.sort = "inst" /\ ret # NotCalled) =>
    /\ arg.val.kind # "other" =>
         /\ ret.fatal = NoFatal
         /\ Cardinality(DOMAIN ret.obj) = 1
         /\ DOMAIN ret.obj \subseteq InstVariants
    /\ arg.val.kind = "other" =>
         /\ ret.fatal = MsgUnknownInstruction
         /\ ret.obj = EmptyObject

\* an invoke of inline assembly has been serialized, as InvokeAsm
C17_Witness ==
  /\ arg.sort = "inst"
  /\ arg.val.kind = "invoke"
  /\ arg.val.callee = VAsm
  /\ ret # NotCalled
  /\ DOMAIN ret.obj = {"InvokeAsm"}

(***************************************************************************)
(* C18.  serialize_const returns an object with exactly one variant key    *)
(* for a constant of every listed flavor and takes the fatal path for any  *)
(* other constant; a marker is recognized as a marker, not as the global   *)
(* it refers to, and its wrap is a {ty, repr} envelope whose repr is one   *)
(* of Variable, Function, Alias, Interface.                                *)
(***************************************************************************)
ConstVariants ==
  {"Marker", "Int", "Float", "Null", "None", "Extension", "Undef", "Default",
   "Vector", "Array", "Struct", "Variable", "Function", "Alias", "Interface",
   "Label", "Expr"}

OtherConstants ==
  {"OtherConstantData", "OtherConstantAggregate", "OtherGlobalValue",
   "OtherConstant"}

C18_ConstCaseAnalysisTotal ==
  (arg.sort = "const" /\ ret # NotCalled) =>
    /\ arg.val.tag \notin OtherConstants =>
         /\ ret.fatal = NoFatal
         /\ Cardinality(DOMAIN ret.obj) = 1
         /\ DOMAIN ret.obj \subseteq ConstVariants
    /\ arg.val.tag \in OtherConstants =>
         /\ ret.fatal \in ConstFatalMessages
         /\ ret.obj = EmptyObject
    /\ arg.val.tag \in {"DSOLocalEquivalent", "NoCFIValue"} =>
         /\ DOMAIN ret.obj = {"Marker"}
         /\ DOMAIN ret.obj["Marker"] = {"wrap"}
         /\ DOMAIN ret.obj["Marker"].wrap = {"ty", "repr"}
         /\ ret.obj["Marker"].wrap.repr.sub
              \in {"Variable", "Function", "Alias", "Interface"}

\* a marker of a function has been serialized
C18_Witness ==
  /\ arg.sort = "const"
  /\ arg.val = VMarker("NoCFIValue", VFunc(2))
  /\ ret # NotCalled
  /\ DOMAIN ret.obj = {"Marker"}
  /\ ret.obj["Marker"].wrap.repr.sub = "Function"

(***************************************************************************)
(* C19.  get_block, get_instruction and get_argument of an entity that was *)
(* never added log the failure at Fatal and terminate the process through  *)
(* the logger, and return no label.                                        *)
(***************************************************************************)
C19_MissingLookupLoggedFatal ==
  ret.fatal = ExcOutOfRange =>
    /\ aborted
    /\ ret.label = NoLabel
    /\ \E k \in 1..Len(log) : log[k].level = Fatal

(***************************************************************************)
(* C20.  A repeated add_block / add_instruction / add_argument of an       *)
(* entity already in the context fails the uniqueness assertion of the     *)
(* operation (the process is aborted where assertions are compiled in),    *)
(* and no step changes the label an entity already has or leaves two       *)
(* entities of one namespace with the same label.                          *)
(***************************************************************************)
LabelsKept(old, new) ==
  /\ \A k \in DOMAIN old : k \in DOMAIN new /\ new[k] = old[k]
  /\ \A j, k \in DOMAIN new : new[j] = new[k] => j = k

C20_RepeatedAddKeepsLabels ==
  [][/\ LabelsKept(unit.block_labels, unit'.block_labels)
     /\ LabelsKept(unit.inst_labels, unit'.inst_labels)
     /\ LabelsKept(unit.arg_labels, unit'.arg_labels)
     \* the assertion fails only on an entity already present, and then
     \* nothing is inserted
     /\ (aborted' /\ ~aborted /\ ret'.fatal = AssertionFailed)
          => (unit' = unit /\ added' = added)
     \* the add of a new entity passes the assertion
     /\ unit' # unit => ~aborted']_vars

\* a repeated add has aborted the process, two entities being labelled
C20_Witness ==
  /\ aborted
  /\ ret = Outcome(AssertionFailed, NoLabel)
  /\ Cardinality(DOMAIN unit.block_labels) = 2
  /\ Cardinality(DOMAIN unit.inst_labels) = 1

(***************************************************************************)
(* C21.  An unnamed function or global variable is recoverable: a message  *)
(* is logged at Error (never at Fatal), the record is emitted with every   *)
(* other field and without a name, and the run goes on to return the       *)
(* document.                                                               *)
(***************************************************************************)
LogHasAt(level, msg) ==
  \E k \in 1..Len(log) : log[k].level = level /\ log[k].msg = msg

C22_LoggerThreshold ==
  /\ Debug < Info /\ Info < Warning /\ Warning < Error /\ Error < Fatal
  /\ (arg.sort = "log" /\ ret # NotCalled) =>
       LET configured == IF arg.verbose THEN Debug ELSE Info IN
       /\ LOG.target_level = configured
       /\ (arg.level >= configured) <=>
            (log = <<[level |-> arg.level, msg |-> MsgProbe]>>)
       /\ (arg.level < configured) <=> (log = <<>>)
       /\ arg.level = Fatal =>
            /\ log = <<[level |-> Fatal, msg |-> MsgProbe]>>
            /\ aborted
            /\ ret.fatal = MsgProbe
       /\ arg.level # Fatal => (~aborted /\ ret.fatal = NoFatal)

\* a debug message has been dropped under the default configuration
C22_Witness ==
  /\ arg = LogArg(FALSE, Debug)
  /\ ret # NotCalled
  /\ log = <<>>

(***************************************************************************)
(* C23.  For a module with no identified struct types, no globals and no   *)
(* functions serialize_module returns an object with exactly the keys      *)
(* name, asm, structs, global_variables and functions: name is the module  *)
(* identifier, asm the empty module inline asm, and the three arrays are   *)
(* empty.                                                                  *)
(***************************************************************************)
EmptyModule(m) == m.structs = <<>> /\ m.globals = <<>> /\ m.funcs = <<>>

C23_EmptyModuleDocument ==
  (EmptyModule(module) /\ pc \in {"open", "write", "destroy_logger"}) =>
    /\ DOMAIN data = {"name", "asm", "structs", "global_variables",
                      "functions"}
    /\ data.name = module.name
    /\ data.asm = module.asm
    /\ data.asm = ""
    /\ data.structs = <<>>
    /\ data.global_variables = <<>>
    /\ data.functions = <<>>

\* the document of the empty module has been returned, nothing logged
C23_Witness ==
  /\ EmptyModule(module)
  /\ pc = "open"
  /\ ~aborted
  /\ data.functions = <<>>
  /\ log = <<>>

(***************************************************************************)
(* C24.  In every context of the registry the labels increase strictly     *)
(* with declaration order: one instruction precedes another in program     *)
(* order (block order, then position in the block) iff its label is the    *)
(* smaller, likewise for blocks and for arguments, and the first entity of *)
(* each namespace has label 0.                                             *)
(***************************************************************************)
Precedes(x, y) == x[1] < y[1] \/ (x[1] = y[1] /\ x[2] < y[2])

C24_LabelsFollowDeclarationOrder ==
  \A p \in DOMAIN contexts :
    LET c == contexts[p]
        fn == module.funcs[p]
        nb == Len(fn.blocks) IN
    /\ DOMAIN c.block_labels = { <<p, b>> : b \in 1..nb }
    /\ \A a, b \in 1..nb :
         (a < b) <=> (c.block_labels[<<p, a>>] < c.block_labels[<<p, b>>])
    /\ nb > 0 => c.block_labels[<<p, 1>>] = 0
    /\ DOMAIN c.inst_labels
         = { <<p, x[1], x[2]>> : x \in InstructionPositions(module, p) }
    /\ \A x, y \in InstructionPositions(module, p) :
         Precedes(x, y) <=> (c.inst_labels[<<p, x[1], x[2]>>]
                               < c.inst_labels[<<p, y[1], y[2]>>])
    /\ nb > 0 => c.inst_labels[<<p, 1, 1>>] = 0
    /\ DOMAIN c.arg_labels = { <<p, a>> : a \in 1..fn.nargs }
    /\ \A a, b \in 1..fn.nargs :
         (a < b) <=> (c.arg_labels[<<p, a>>] < c.arg_labels[<<p, b>>])
    /\ fn.nargs > 0 => c.arg_labels[<<p, 1>>] = 0

\* the prepare phase is over for a module with a function of several blocks
\* of several instructions and a function of several arguments
C24_Witness ==
  /\ pc = "serialize_module"
  /\ \E p \in DOMAIN contexts :
       /\ Len(module.funcs[p].blocks) >= 3
       /\ Len(module.funcs[p].blocks[1]) >= 2
  /\ \E p \in DOMAIN contexts : module.funcs[p].nargs >= 2

(***************************************************************************)
(* C25.  For every switch instruction cases holds exactly one entry per    *)
(* declared case, in declaration order, each pairing the value of the case *)
(* with the label of the successor block of that case; the default target  *)
(* is emitted apart, in default, and the skip of the default index drops   *)
(* no declared case.                                                       *)
(***************************************************************************)
\* <<value, block label>> of the declared cases of a switch of function p
DeclaredCases(p, inst) ==
  [k \in 1..Len(inst.inc) |->
     <<inst.inc[k].value.a, contexts[p].block_labels[<<p, inst.inc[k].block>>]>>]
\* the same of the entries emitted
EmittedCases(sw) ==
  [k \in 1..Len(sw.cases) |-> <<sw.cases[k].value.index, sw.cases[k].block>>]

C25_SwitchCasesComplete ==
  \A r \in Records(result) :
    \A b \in 1..Len(r.blocks) :
      \A k \in 1..Len(Envelopes(r.blocks[b])) :
        LET e == Envelopes(r.blocks[b])[k]
            inst == InstAt(module, r.src, b,
                           EmittedPositions(module, r.src, b)[k])
        IN inst.kind = "switch" =>
             /\ e.repr.tag = "Switch"
             /\ EmittedCases(e.repr.switch) = DeclaredCases(r.src, inst)
             /\ \A j \in 1..Len(e.repr.switch.cases) :
                  /\ e.repr.switch.cases[j].value.tag = "Constant"
                  /\ e.repr.switch.cases[j].value.sub = "Int"
             /\ e.repr.switch.has_default
             /\ e.repr.switch.default
                  = contexts[r.src].block_labels[<<r.src, inst.succs[1]>>]

\* a switch has been emitted whose one declared case leaves for a block
\* other than the default
C25_Witness ==
  \E r \in Records(result) :
    \E e \in RecordEnvelopes(r) :
      /\ e.repr.tag = "Switch"
      /\ Len(e.repr.switch.cases) = 1
      /\ e.repr.switch.cases[1].block # e.repr.switch.default
      /\ e.repr.switch.cases[1].value.index = 0

(***************************************************************************)
(* C26.  For every phi instruction options holds one entry per incoming    *)
(* edge; the block of each entry is the label of an incoming block of the  *)
(* phi and its value is the serialization of the incoming value bound to   *)
(* that block, whatever the position of the block among the incoming       *)
(* pairs.                                                                  *)
(***************************************************************************)
\* the value object j is the serialization of the value v of function p
SerializationOf(p, v, j) ==
  CASE v.tag = "Int" ->
         j.tag = "Constant" /\ j.sub = "Int" /\ j.index = v.a
    [] v.tag = "Inst" ->
         /\ j.tag = "Instruction"
         /\ j.index = contexts[p].inst_labels[<<p, v.a, v.b>>]
    [] v.tag = "Arg" ->
         j.tag = "Argument" /\ j.index = contexts[p].arg_labels[<<p, v.a>>]
    [] OTHER -> FALSE

C26_PhiOptionsByBlock ==
  \A r \in Records(result) :
    \A b \in 1..Len(r.blocks) :
      \A k \in 1..Len(Envelopes(r.blocks[b])) :
        LET e == Envelopes(r.blocks[b])[k]
            p == r.src
            inst == InstAt(module, p, b, EmittedPositions(module, p, b)[k])
        IN inst.kind = "phi" =>
             /\ e.repr.tag = "Phi"
             /\ Len(e.repr.options) = Len(inst.inc)
             /\ \A o \in 1..Len(e.repr.options) :
                  \E h \in 1..Len(inst.inc) :
                    /\ e.repr.options[o].block
                         = contexts[p].block_labels[<<p, inst.inc[h].block>>]
                    /\ SerializationOf(p, inst.inc[h].value,
                                       e.repr.options[o].value)
             \* every incoming block has its entry
             /\ \A h \in 1..Len(inst.inc) :
                  \E o \in 1..Len(e.repr.options) :
                    e.repr.options[o].block
                      = contexts[p].block_labels[<<p, inst.inc[h].block>>]

\* a phi has been emitted whose incoming pairs are not in block order
C26_Witness ==
  \E r \in Records(result) :
    \E e \in RecordEnvelopes(r) :
      /\ e.repr.tag = "Phi"
      /\ Len(e.repr.options) = 2
      /\ e.repr.options[1].block > e.repr.options[2].block
      /\ e.repr.options[1].value.tag = "Constant"
      /\ e.repr.options[2].value.tag = "Instruction"

(***************************************************************************)
(* C27.  The terminator of a block is emitted in terminator and never in   *)
(* body; body holds exactly the instructions of the block that are neither *)
(* the terminator nor debug-info instructions, so its length is the        *)
(* instruction count of the block minus one minus the number of its        *)
(* debug-info instructions.                                                *)
(***************************************************************************)
\* the positions of the debug-info instructions of block b of function p
DebugPositions(m, p, b) ==
  { i \in 1..Len(m.funcs[p].blocks[b]) :
      is_debug_instruction(m, InstAt(m, p, b, i)) }
\* the label the registry gave instruction i of block b of function p
InstLabel(p, b, i) == contexts[p].inst_labels[<<p, b, i>>]

C27_BodyExcludesTerminatorAndDebug ==
  \A r \in Records(result) :
    \A b \in 1..Len(r.blocks) :
      LET p == r.src
          n == Len(module.funcs[p].blocks[b])
          body == r.blocks[b].body
      IN /\ r.blocks[b].terminator.index = InstLabel(p, b, n)
         /\ \A k \in 1..Len(body) : body[k].index # InstLabel(p, b, n)
         /\ { body[k].index : k \in 1..Len(body) }
              = { InstLabel(p, b, i) :
                    i \in (1..(n - 1)) \ DebugPositions(module, p, b) }
         /\ Len(body) = n - 1 - Cardinality(DebugPositions(module, p, b))

\* a block with a debug-info instruction and another instruction before its
\* terminator has been emitted
C27_Witness ==
  \E r \in Records(result) :
    \E b \in 1..Len(r.blocks) :
      /\ DebugPositions(module, r.src, b) # {}
      /\ Len(r.blocks[b].body) >= 1
      /\ Len(module.funcs[r.src].blocks[b]) >= 3

(***************************************************************************)
(* C28.  The instruction materialized for a constant expression is never   *)
(* inserted into a block or function, and it is destroyed before           *)
(* serialize_const_expr returns: once the serialization of a constant has  *)
(* returned, no such instruction is allocated any more.                    *)
(***************************************************************************)
C28_TemporaryDiscarded ==
  /\ \A t \in temps : t.parent = NoParent
  /\ ret # NotCalled => temps = {}

\* the part that holds: an allocated temporary is in no block
C28_TemporaryNeverInserted ==
  \A t \in temps : t.parent = NoParent

\* the serialization of a constant expression has returned its object and
\* the instruction made for it is still allocated
C28_TemporaryLeaked ==
  /\ arg.sort = "const"
  /\ arg.val.tag = "ConstantExpr"
  /\ ret # NotCalled
  /\ ret.fatal = NoFatal
  /\ getAsInstruction(arg.val) \in temps

(***************************************************************************)
(* C29.  Only the debug-info-intrinsic functions are filtered out: every   *)
(* function for which is_debug_function is false has its record in the     *)
(* document and no other function has one; the record of a function whose  *)
(* name starts with llvm. or that has an intrinsic id has is_intrinsic     *)
(* true, the record of any other function has it false.                    *)
(***************************************************************************)
C29_OnlyDebugFunctionsFiltered ==
  (pc \in {"open", "write", "destroy_logger"}) =>
    /\ \A p \in 1..NumFuncs(module) :
         (\E r \in Records(data) : r.src = p)
           <=> ~is_debug_function(module.funcs[p])
    /\ \A r \in Records(data) :
         r.is_intrinsic
           <=> (module.funcs[r.src].prefix \/ module.funcs[r.src].iid # "none")

\* the document of a module with a debug-info intrinsic and another
\* intrinsic has been returned: one function filtered, one flagged
C29_Witness ==
  /\ pc = "open"
  /\ ~aborted
  /\ \E p \in 1..NumFuncs(module) : is_debug_function(module.funcs[p])
  /\ \E r \in Records(data) : r.is_intrinsic

(***************************************************************************)
(* C30.  The filter is the same in both phases: once the prepare phase has *)
(* returned, and as long as the document exists, the functions that own a  *)
(* registry context are the functions for which is_debug_function is       *)
(* false, every record emitted so far belongs to one of them, and the      *)
(* records of the returned document are those of exactly these functions.  *)
(***************************************************************************)
\* the functions whose records are in the document doc
EmittedFunctions(doc) == { r.src : r \in Records(doc) }

C30_FilterConsistent ==
  /\ (Emitting \/ pc \in {"open", "write", "destroy_logger"}) =>
       DOMAIN contexts = NonDebugFunctions(module)
  /\ Emitting => EmittedFunctions(result) \subseteq DOMAIN contexts
  /\ pc \in {"open", "write", "destroy_logger"} =>
       /\ EmittedFunctions(data) = DOMAIN contexts
       /\ EmittedFunctions(data) = NonDebugFunctions(module)

\* the document of a module with a debug-info function and another function
\* has been returned
C30_Witness ==
  /\ pc = "open"
  /\ ~aborted
  /\ \E p \in 1..NumFuncs(module) : is_debug_function(module.funcs[p])
  /\ EmittedFunctions(data) # {}
  /\ EmittedFunctions(data) = DOMAIN contexts

\* the document holds the record of a function that owns no registry
\* context
C30_EmittedWithoutContext ==
  /\ pc = "open"
  /\ ~aborted
  /\ \E p \in EmittedFunctions(data) : p \notin DOMAIN contexts

====
